---- MODULE Spec2Model ----
(***************************************************************************)
(* PewpewLiveDashboard: the tips engine (TipsEngine.tick, the rule loader), *)
(* the poll loop of the main process and the snapshot aggregator            *)
(* (getAggregatedSnapshot).                                                 *)
(*                                                                          *)
(* Units: game time in whole seconds (the slack 2.1 of the window test is   *)
(* kept exact by comparing 10*x with 10*lead - 21); wall clock in ms.       *)
(* Fired keys are the tuples <<rule id, objective or "cannon_wave", lead,   *)
(* occurrence>> that the source joins with ':' into one string.             *)
(***************************************************************************)
EXTENDS Integers, Sequences, FiniteSets, TLC

VARIABLES
    config,          \* TipsEngine.config.modules
    lastNow,         \* TipsEngine.lastNow
    fired,           \* TipsEngine.fired
    lastFiredAtMs,   \* TipsEngine.lastFiredAtMs
    wallMs,          \* Date.now()
    tips,            \* the tips emitted by the latest step, in emission order
    last,            \* what the latest step was and what it observed
    hist,            \* history of the engine since construction
    pending          \* the ticks awaiting getSnapshot(), each with the modules
                     \* that were loaded when its timer fired

tipsVars == <<config, lastNow, fired, lastFiredAtMs, wallMs, tips, last, hist, pending>>

VARIABLES
    rulesDir,        \* the files of the rules directory, in readdirSync order
    loaded,          \* the modules loadYamlFiles returned
    loadPc           \* "idle", "ready" (a load is due) or "loaded"

loadVars == <<rulesDir, loaded, loadPc>>

VARIABLES
    pollIntervalMs,  \* main process: pollIntervalMs
    pollTimer,       \* main process: pollTimer, 0 for null, else the timer's id
    armed,           \* the interval timers armed in the event loop: [id, ms]
    timersMade,      \* how many timers setInterval has made
    inFlight,        \* the pollOnce executions awaiting getAggregatedSnapshot
    lastSnapshot,    \* main process: lastSnapshot, 0 for null, else 1
    settingsFile,    \* settings.json: 0 for no file, else its pollIntervalMs
    saving           \* setPollingInterval calls awaiting saveSettings

pollVars == <<pollIntervalMs, pollTimer, armed, timersMade, inFlight, lastSnapshot,
              settingsFile, saving>>

VARIABLES
    world,           \* what the upstream serves during this getAggregatedSnapshot call
    aggPc,           \* "idle", "core", "details", "returned" or "failed"
    core,            \* the four core fetches: "pending", "ok" or "reject"
    opt,             \* activeplayer and activeplayerabilities: the same
    loops,           \* per identity-keyed endpoint, the requests made: [id, res]
    ddragon,         \* what Data Dragon gave the asset stage, <<>> before
    result           \* the snapshot returned, <<>> before

aggVars == <<world, aggPc, core, opt, loops, ddragon, result>>

VARIABLES
    callArgs,        \* the arguments of the latest call of the function under study
    callOut,         \* what it returned
    callPrev         \* [args, out, step] of the call before, <<>> at first

callVars == <<callArgs, callOut, callPrev>>

VARIABLES
    windows,         \* main process: the windows that exist and are not destroyed
    sent,            \* what the latest main-process handler sent: [to, channel, payload]
    inbox,           \* "snapshot" messages on their way to the main window's renderer
    view,            \* the main view (app.ts): snapshot.value, activeTab, previousHasData
    uiLast           \* what the latest step of the main process or of the view was

uiVars == <<windows, sent, inbox, view, uiLast>>

vars == <<tipsVars, loadVars, pollVars, aggVars, callVars, uiVars>>

----------------------------------------------------------------------------
(* Bounds of the model *)

\* Date.now() at construction, in ms
EpochMs == 100000
\* the wall clock advances by one or two such steps between two ticks
WallStepMs == 5000
\* the engine is followed for this many wall steps
MaxWallSteps == 3
\* emissions per key are counted up to this number
MaxCount == 2
\* the rules directory holds at most this many files
MaxFiles == 3
\* at most this many poll cycles are followed at once
MaxInFlight == 3
\* at most this many interval timers are made
MaxTimers == 3
\* at most this many setPollingInterval calls await saveSettings at once
MaxSaving == 2
\* kill events an objective-timer event log grows to
MaxKills == 3

----------------------------------------------------------------------------
(* Helpers *)

Max(a, b) == IF a >= b THEN a ELSE b
Min(a, b) == IF a <= b THEN a ELSE b

RECURSIVE Flatten(_)
Flatten(ss) == IF ss = <<>> THEN <<>> ELSE Head(ss) \o Flatten(Tail(ss))

Range(s) == {s[i] : i \in 1..Len(s)}

\* new Map()
EmptyMap == [x \in {} |-> x]

\* Map.get(key) || 0
MapGetOr0(m, k) == IF k \in DOMAIN m THEN m[k] ELSE 0
\* Map.set(key, v)
MapSet(m, k, v) == [x \in (DOMAIN m) \cup {k} |-> IF x = k THEN v ELSE m[x]]

\* Array.prototype.sort((a, b) => a - b)
RECURSIVE SortAsc(_)
SortAsc(s) ==
    IF s = <<>> THEN <<>>
    ELSE LET r == SortAsc(Tail(s))
             h == Head(s)
             n == Cardinality({i \in 1..Len(r) : r[i] < h})
         IN SubSeq(r, 1, n) \o <<h>> \o SubSeq(r, n + 1, Len(r))

----------------------------------------------------------------------------
(* Objective timers (riotClient.computeObjectiveTimers) *)

DRAGON_FIRST_SPAWN == 300
DRAGON_RESPAWN == 300
HERALD_FIRST_SPAWN == 480
\* a herald cadence equal to its first-spawn delay, the variant the cap is measured against
HeraldRespawnAsFirstSpawn == HERALD_FIRST_SPAWN
HERALD_RESPAWN == 360
BARON_FIRST_SPAWN == 1200
BARON_RESPAWN == 360

\* the last event of the given name in log order, <<>> when there is none
\* the first event of that name
firstKill(events, name) ==
    LET hits == SelectSeq(events, LAMBDA ev : ev.EventName = name)
    IN IF hits = <<>> THEN <<>> ELSE <<hits[1]>>

RECURSIVE lastKill(_, _)
lastKill(events, name) ==
    IF events = <<>> THEN <<>>
    ELSE LET rest == lastKill(Tail(events), name)
         IN IF rest # <<>> THEN rest
            ELSE IF Head(events).EventName = name THEN <<Head(events)>>
            ELSE <<>>

\* m:ss of the absolute value
secondsToClockUnsigned(sec) ==
    LET abs == IF sec < 0 THEN -sec ELSE sec
    IN ToString(abs \div 60) \o ":"
       \o (IF abs % 60 < 10 THEN "0" ELSE "") \o ToString(abs % 60)

\* m:ss, with a sign for a time already past
secondsToClock(sec) ==
    LET sign == IF sec < 0 THEN "-" ELSE ""
        abs == IF sec < 0 THEN -sec ELSE sec
        m == ToString(abs \div 60)
        ss == IF abs % 60 < 10 THEN "0" \o ToString(abs % 60)
              ELSE ToString(abs % 60)
    IN sign \o m \o ":" \o ss

\* secondsToClock(t - gameTimeSec); the difference is NaN when the game time
\* is undefined
clockUntil(t, gameTimeSec) ==
    IF gameTimeSec = <<>> THEN "NaN:NaN" ELSE secondsToClock(t - gameTimeSec[1])

\* gameStats.gameTime is <<t>>, or <<>> when the body has no such field; a
\* comparison of undefined with a number is false.
Before(gameTimeSec, t) == gameTimeSec # <<>> /\ gameTimeSec[1] < t

\* a herald timer that is not held at the end of its window
nextHeraldUnbounded(gameTimeSec, lastHeraldKill, heraldAvailableWindowEnd) ==
    IF Before(gameTimeSec, HERALD_FIRST_SPAWN) THEN HERALD_FIRST_SPAWN
    ELSE IF lastHeraldKill # <<>>
         THEN lastHeraldKill[1].EventTime + HERALD_RESPAWN
         ELSE HERALD_FIRST_SPAWN

\* const nextHeraldAt
nextHeraldAtOf(gameTimeSec, lastHeraldKill, heraldAvailableWindowEnd) ==
    IF Before(gameTimeSec, HERALD_FIRST_SPAWN) THEN HERALD_FIRST_SPAWN
    ELSE Min(heraldAvailableWindowEnd,
             IF lastHeraldKill # <<>>
             THEN lastHeraldKill[1].EventTime + HERALD_RESPAWN
             ELSE HERALD_FIRST_SPAWN)

computeObjectiveTimers(gameTimeSec, events) ==
    LET lastDragonKill == lastKill(events, "DragonKill")
        lastHeraldKill == lastKill(events, "HeraldKill")
        lastBaronKill == lastKill(events, "BaronKill")
        nextDragonAt ==
            IF Before(gameTimeSec, DRAGON_FIRST_SPAWN) THEN DRAGON_FIRST_SPAWN
            ELSE IF lastDragonKill # <<>>
                 THEN lastDragonKill[1].EventTime + DRAGON_RESPAWN
                 ELSE DRAGON_FIRST_SPAWN
        heraldAvailableWindowEnd == BARON_FIRST_SPAWN
        nextHeraldAt == nextHeraldAtOf(gameTimeSec, lastHeraldKill, heraldAvailableWindowEnd)
        nextBaronAt ==
            IF Before(gameTimeSec, BARON_FIRST_SPAWN) THEN BARON_FIRST_SPAWN
            ELSE IF lastBaronKill # <<>>
                 THEN lastBaronKill[1].EventTime + BARON_RESPAWN
                 ELSE BARON_FIRST_SPAWN
    IN [dragon |-> [nextSpawnTime |-> nextDragonAt,
                    timeToSpawn |-> clockUntil(nextDragonAt, gameTimeSec),
                    lastKillType |->
                        IF lastDragonKill # <<>>
                           /\ "DragonType" \in DOMAIN lastDragonKill[1]
                        THEN <<lastDragonKill[1].DragonType>> ELSE <<>>],
        herald |-> [nextSpawnTime |-> nextHeraldAt,
                    timeToSpawn |-> clockUntil(nextHeraldAt, gameTimeSec),
                    despawnsAt |-> heraldAvailableWindowEnd,
                    despawnsIn |->
                        clockUntil(heraldAvailableWindowEnd, gameTimeSec)],
        baron |-> [nextSpawnTime |-> nextBaronAt,
                   timeToSpawn |-> clockUntil(nextBaronAt, gameTimeSec)]]

----------------------------------------------------------------------------
(* Rule documents (tipsEngine types Rule, Module; README example rule) *)

\* rule.when absent
NoWhen == [hasPhase |-> FALSE, hasMin |-> FALSE, min |-> 0,
           hasMax |-> FALSE, max |-> 0, modes |-> <<>>]

\* rule.when.phase with the bounds that are numbers, and rule.when.modes
When(hasMin, min, hasMax, max, modes) ==
    [hasPhase |-> TRUE, hasMin |-> hasMin, min |-> min,
     hasMax |-> hasMax, max |-> max, modes |-> modes]

\* leadSeconds: number
Lead(n) == [isArray |-> FALSE, list |-> <<n>>]
\* leadSeconds: number[]
Leads(s) == [isArray |-> TRUE, list |-> s]

ObjectiveRule(id, objective, leadSeconds, throttleSec) ==
    [id |-> id, enabled |-> TRUE, when |-> NoWhen,
     trigger |-> [type |-> "objective_spawn", objective |-> objective,
                  leadSeconds |-> leadSeconds],
     notify |-> [throttleSec |-> throttleSec, title |-> <<>>]]

CannonRule(id, leadSeconds, throttleSec) ==
    [id |-> id, enabled |-> TRUE, when |-> NoWhen,
     trigger |-> [type |-> "cannon_wave", objective |-> "cannon_wave",
                  leadSeconds |-> leadSeconds],
     notify |-> [throttleSec |-> throttleSec, title |-> <<>>]]

\* a rule document entry with no trigger: rule.trigger is undefined
NoTriggerRule(id) ==
    [id |-> id, enabled |-> TRUE, when |-> NoWhen,
     trigger |-> [type |-> "undefined", objective |-> "", leadSeconds |-> Lead(0)],
     notify |-> [throttleSec |-> 0, title |-> <<>>]]

Mod(id, enabled, rules) == [id |-> id, enabled |-> enabled, rules |-> rules]

\* one file of the rules directory
File(ext, readable, modules) == [ext |-> ext, readable |-> readable, modules |-> modules]

----------------------------------------------------------------------------
(* tipsEngine: loadYamlFiles, inPhase, modeAllowed, getLeadList,            *)
(* getNextCannonWavesBefore20                                               *)

\* the loop of loadYamlFiles: a read or parse error leaves the loop through
\* the catch that surrounds it, with the modules gathered so far
RECURSIVE loadLoop(_, _)
loadLoop(files, modules) ==
    IF files = <<>> THEN modules
    ELSE LET f == Head(files)
         IN IF f.ext \notin {"yml", "yaml"} THEN loadLoop(Tail(files), modules)
            ELSE IF ~f.readable THEN modules
            ELSE loadLoop(Tail(files), modules \o f.modules)

loadYamlFiles(dir) == loadLoop(dir, <<>>)

\* a rule loop in which the phase bounds are not read
phaseIgnored(when, gameTime) == TRUE

inPhase(when, gameTime) ==
    IF ~when.hasPhase THEN TRUE
    ELSE IF when.hasMin /\ gameTime < when.min THEN FALSE
    ELSE IF when.hasMax /\ gameTime > when.max THEN FALSE
    ELSE TRUE

modeAllowed(when, mode) ==
    IF when.modes = <<>> THEN TRUE
    ELSE IF mode = "" THEN FALSE
    ELSE mode \in Range(when.modes)

getLeadList(lead) == IF lead.isArray THEN SortAsc(lead.list) ELSE lead.list

FIRST_WAVE == 90
CADENCE == 30
\* an end of the laning phase two waves later
EndTwoWavesLater == FIRST_WAVE + 39 * CADENCE
END == 1200
\* waves.length >= 5
WAVE_LIMIT == 5

RECURSIVE wavesLoop(_, _, _)
wavesLoop(i, waves, nowSec) ==
    LET t == FIRST_WAVE + (i - 1) * CADENCE
    IN IF t > END THEN waves
       ELSE IF i % 3 = 0
            THEN LET pushed == Append(waves, [waveIndex |-> i, spawnTime |-> t])
                 IN IF Len(pushed) >= WAVE_LIMIT THEN pushed
                    ELSE wavesLoop(i + 1, pushed, nowSec)
            ELSE wavesLoop(i + 1, waves, nowSec)

\* a loop that starts at the current wave instead of the one after it
wavesFromCurrent(nowSec) ==
    wavesLoop(IF nowSec < FIRST_WAVE THEN 0 ELSE ((nowSec - FIRST_WAVE) \div CADENCE) + 1,
              <<>>, nowSec)

getNextCannonWavesBefore20(nowSec) ==
    LET currentWaveIndex ==
            IF nowSec < FIRST_WAVE THEN 0
            ELSE ((nowSec - FIRST_WAVE) \div CADENCE) + 1
    IN wavesLoop(currentWaveIndex + 1, <<>>, nowSec)

----------------------------------------------------------------------------
(* TipsEngine.tick, after its await: the evaluation of one snapshot.        *)
(* The evaluation state st carries the engine's fired set and throttle map, *)
(* the tips emitted so far, and what the evaluation did: the keys a         *)
(* throttle suppressed, the rules it evaluated, whether a rule threw.       *)

\* mutant: a slack of 3.1
withinWindowWide(timeToSpawn, lead) ==
    timeToSpawn <= lead /\ 10 * timeToSpawn > 10 * lead - 31

\* timeToSpawn <= lead && timeToSpawn > lead - 2.1
withinWindow(timeToSpawn, lead) ==
    timeToSpawn <= lead /\ 10 * timeToSpawn > 10 * lead - 21

\* Math.max(0, Math.floor((rule.notify?.throttleSec || 0) * 1000))
throttleMsOf(rule) == Max(0, rule.notify.throttleSec * 1000)

\* mutant: the throttle test is lost
throttledNever(st, rule, key, nowMs) == FALSE

\* if (throttleMs > 0) { prev = get(key) || 0; if (Date.now() - prev < throttleMs) continue; ... }
throttled(st, rule, key, nowMs) ==
    /\ throttleMsOf(rule) > 0
    /\ nowMs - MapGetOr0(st.lastFiredAtMs, key) < throttleMsOf(rule)

\* mutant: the fired set is not consulted
mayFireNoDedup(st, key, timeToSpawn, lead) == withinWindow(timeToSpawn, lead)

\* if (withinWindow && !this.fired.has(key))
mayFire(st, key, timeToSpawn, lead) ==
    withinWindow(timeToSpawn, lead) /\ key \notin st.fired

\* a payload that carries the template as it is
replaceNothing(template, pattern, by) == template

\* a template is the sequence of its pieces, the placeholder being one piece;
\* str.replace("{lead}", by) replaces the first occurrence only
RECURSIVE replace(_, _, _)
replace(template, pattern, by) ==
    IF template = <<>> THEN <<>>
    ELSE IF Head(template) = pattern THEN <<by>> \o Tail(template)
    ELSE <<Head(template)>> \o replace(Tail(template), pattern, by)

RECURSIVE joined(_)
joined(pieces) == IF pieces = <<>> THEN "" ELSE Head(pieces) \o joined(Tail(pieces))

\* chan?.title || the default of the trigger type
titleTpl(rule) ==
    IF rule.notify.title # <<>> THEN rule.notify.title
    ELSE IF rule.trigger.type = "cannon_wave" THEN <<"Cannon wave in ", "{lead}", "s">>
    ELSE <<"Prepare ", rule.trigger.objective, " in ", "{lead}", "s">>

\* titleTpl.replace("{lead}", String(lead))
titleOf(rule, lead) == joined(replace(titleTpl(rule), "{lead}", ToString(lead)))

\* a lead loop that stamps the key before it tests the throttle
evalLeadStampsSuppressed(st, rule, occ, spawnTime, nowSec, lead, nowMs) ==
    LET key == <<rule.id, rule.trigger.objective, lead, occ>>
        timeToSpawn == spawnTime - nowSec
    IN IF mayFire(st, key, timeToSpawn, lead)
       THEN IF throttled(st, rule, key, nowMs)
            THEN [st EXCEPT !.suppressed = @ \cup {key},
                            !.lastFiredAtMs = MapSet(@, key, nowMs)]
            ELSE [st EXCEPT
                    !.lastFiredAtMs = IF throttleMsOf(rule) > 0
                                      THEN MapSet(@, key, nowMs) ELSE @,
                    !.fired = @ \cup {key},
                    !.tips = Append(@, [id |-> rule.id, key |-> key, lead |-> lead,
                                        title |-> titleOf(rule, lead),
                                        spawnTime |-> spawnTime,
                                        throttleMs |-> throttleMsOf(rule)])]
       ELSE st

\* the body of the lead loop, for the occurrence occ (wave index or rounded
\* spawn time) at time spawnTime
evalLead(st, rule, occ, spawnTime, nowSec, lead, nowMs) ==
    LET key == <<rule.id, rule.trigger.objective, lead, occ>>
        timeToSpawn == spawnTime - nowSec
    IN IF mayFire(st, key, timeToSpawn, lead)
       THEN IF throttled(st, rule, key, nowMs)
            THEN [st EXCEPT !.suppressed = @ \cup {key}]
            ELSE [st EXCEPT
                    !.lastFiredAtMs = IF throttleMsOf(rule) > 0
                                      THEN MapSet(@, key, nowMs) ELSE @,
                    !.fired = @ \cup {key},
                    !.tips = Append(@, [id |-> rule.id, key |-> key, lead |-> lead,
                                        title |-> titleOf(rule, lead),
                                        spawnTime |-> spawnTime,
                                        throttleMs |-> throttleMsOf(rule)])]
       ELSE st

RECURSIVE evalLeads(_, _, _, _, _, _, _)
evalLeads(st, rule, occ, spawnTime, nowSec, leads, nowMs) ==
    IF leads = <<>> THEN st
    ELSE evalLeads(evalLead(st, rule, occ, spawnTime, nowSec, Head(leads), nowMs),
                   rule, occ, spawnTime, nowSec, Tail(leads), nowMs)

RECURSIVE evalWaves(_, _, _, _, _, _)
evalWaves(st, rule, upcoming, nowSec, leads, nowMs) ==
    IF upcoming = <<>> THEN st
    ELSE evalWaves(evalLeads(st, rule, Head(upcoming).waveIndex,
                             Head(upcoming).spawnTime, nowSec, leads, nowMs),
                   rule, Tail(upcoming), nowSec, leads, nowMs)

\* the objective_spawn branch
evalObjective(st, rule, snap, nowMs) ==
    LET next == snap.objectives[rule.trigger.objective].nextSpawnTime
    IN IF next <= 0 THEN st
       ELSE IF next - snap.time <= 0 THEN st
       ELSE evalLeads(st, rule, next, next, snap.time,
                      getLeadList(rule.trigger.leadSeconds), nowMs)

\* the cannon_wave branch
evalCannon(st, rule, snap, nowMs) ==
    IF snap.time >= 1200 THEN st
    ELSE evalWaves(st, rule, getNextCannonWavesBefore20(snap.time), snap.time,
                   getLeadList(rule.trigger.leadSeconds), nowMs)

\* a rule loop that does not read rule.enabled
applicableThoughDisabled(rule, snap) ==
    inPhase(rule.when, snap.time) /\ modeAllowed(rule.when, snap.mode)

\* the rule passes the guards at the head of the rule loop
applicable(rule, snap) ==
    rule.enabled /\ inPhase(rule.when, snap.time) /\ modeAllowed(rule.when, snap.mode)

\* the body of the rule loop; reading rule.trigger.type of a rule without a
\* trigger throws
evalRule(st, rule, snap, nowMs) ==
    IF ~applicable(rule, snap) THEN st
    ELSE IF rule.trigger.type = "undefined" THEN [st EXCEPT !.thrown = TRUE]
    ELSE LET seen == [st EXCEPT !.evaluated = @ \cup {rule.id}]
         IN IF rule.trigger.type = "cannon_wave" THEN evalCannon(seen, rule, snap, nowMs)
            ELSE IF rule.trigger.type = "objective_spawn"
                 THEN evalObjective(seen, rule, snap, nowMs)
            ELSE seen

\* an exception leaves every loop: the catch is around the whole tick
RECURSIVE evalRules(_, _, _, _)
evalRules(st, rules, snap, nowMs) ==
    IF rules = <<>> \/ st.thrown THEN st
    ELSE evalRules(evalRule(st, Head(rules), snap, nowMs), Tail(rules), snap, nowMs)

RECURSIVE evalModules(_, _, _, _)
evalModules(st, modules, snap, nowMs) ==
    IF modules = <<>> \/ st.thrown THEN st
    ELSE evalModules(IF ~Head(modules).enabled THEN st
                     ELSE evalRules(st, Head(modules).rules, snap, nowMs),
                     Tail(modules), snap, nowMs)

\* mutant: an unchanged clock counts as a regression
clockRegressedOrSame(nowSec, prevNow) == nowSec <= prevNow

\* if (nowSec < this.lastNow) this.fired.clear()
clockRegressed(nowSec, prevNow) == nowSec < prevNow

\* mutant: the fired set survives a regression
firedNeverReset(firedSet, nowSec, prevNow) == firedSet

firedAfterReset(firedSet, nowSec, prevNow) ==
    IF clockRegressed(nowSec, prevNow) THEN {} ELSE firedSet

\* the whole evaluation of a tick that got the snapshot snap at wall time nowMs
tickEval(modules, firedSet, throttleMap, prevNow, snap, nowMs) ==
    evalModules([fired |-> firedAfterReset(firedSet, snap.time, prevNow),
                 lastFiredAtMs |-> throttleMap,
                 tips |-> <<>>, suppressed |-> {}, evaluated |-> {},
                 thrown |-> FALSE],
                modules, snap, nowMs)

----------------------------------------------------------------------------
(* The inputs of the engine: the rules directory at a reload, the snapshot  *)
(* a tick gets                                                              *)

\* README example rule: objective_spawn, dragon, leadSeconds 30
dragon_prep_30 ==
    [ObjectiveRule("dragon_prep_30", "dragon", Lead(30), 0)
        EXCEPT !.notify.title = <<"Dragon in ", "{lead}", "s">>]
cannon_10 == CannonRule("cannon_10", Lead(10), 0)
\* a lead list, not sorted, whose two windows overlap; throttleSec: 10
dragon_throttled == ObjectiveRule("dragon_prep_30", "dragon", Leads(<<30, 29>>), 10)
\* a lead beyond what the five materialized waves reach
cannon_far == CannonRule("cannon_far", Leads(<<460, 10>>), 0)

DirPlain ==
    <<File("yml", TRUE, <<Mod("objectives", TRUE, <<dragon_prep_30>>)>>),
      File("md", TRUE, <<>>),
      File("yaml", TRUE, <<Mod("waves", TRUE, <<cannon_10>>)>>)>>
DirThrottled ==
    <<File("yml", TRUE, <<Mod("objectives", TRUE, <<dragon_throttled>>)>>)>>
DirNoTrigger ==
    <<File("yml", TRUE, <<Mod("waves", TRUE, <<cannon_10, NoTriggerRule("draft")>>),
                          Mod("objectives", TRUE, <<dragon_prep_30>>)>>)>>
DirUnreadable ==
    <<File("yml", TRUE, <<Mod("waves", TRUE, <<cannon_10>>)>>),
      File("yml", FALSE, <<>>),
      File("yml", TRUE, <<Mod("objectives", TRUE, <<dragon_prep_30>>)>>)>>
DirFar ==
    <<File("yml", TRUE, <<Mod("waves", TRUE, <<cannon_far>>)>>)>>

\* the README rule switched off, the same rule from 1131 on in CLASSIC games
\* only, the same rule up to 1130 in any mode, and a module switched off
dragon_off ==
    [ObjectiveRule("dragon_off", "dragon", Lead(30), 0) EXCEPT !.enabled = FALSE]
dragon_late ==
    [ObjectiveRule("dragon_late", "dragon", Lead(30), 0)
        EXCEPT !.when = When(TRUE, 1131, FALSE, 0, <<"CLASSIC">>)]
dragon_early ==
    [ObjectiveRule("dragon_early", "dragon", Lead(30), 0)
        EXCEPT !.when = When(FALSE, 0, TRUE, 1130, <<>>)]
\* a cannon rule with the lead of cannon_10 and a lead that reaches from the
\* last cannon wave of the laning phase (wave 36, 1140) to the first one
\* after it (wave 39, 1230)
cannon_100 == CannonRule("cannon_100", Leads(<<100, 10>>), 0)
DirGuarded ==
    <<File("yml", TRUE, <<Mod("objectives", TRUE, <<dragon_off, dragon_late, dragon_early>>),
                          Mod("waves", FALSE, <<cannon_10>>),
                          Mod("late", TRUE, <<cannon_100>>)>>)>>

Dirs == {DirPlain, DirThrottled, DirNoTrigger, DirUnreadable, DirFar}

\* the rules directories of the runs that study the guards of the rule loop
GuardDirs == {DirGuarded, DirPlain}

\* game times a tick may observe: a new game, the window of cannon_far for
\* wave 36, the common window of wave 36 (lead 10) and of a dragon spawning
\* at 1160 (lead 30) with the seconds around it, the end of the laning phase
Times == {0, 680, 1129, 1130, 1131, 1132, 1133, 1200}

DragonKill(t) == [EventName |-> "DragonKill", EventTime |-> t]
EventLogs == {<<>>, <<DragonKill(500), DragonKill(860)>>}

Modes == {"CLASSIC"}

\* snap.game?.mode ?? "": Summoner's Rift, ARAM, and no mode reported
GameModes == {"CLASSIC", "ARAM", ""}

\* the SnapshotLike a tick reads from getAggregatedSnapshot's result
SnapshotOf(gameTime, mode, events) ==
    [time |-> gameTime, mode |-> mode,
     objectives |-> computeObjectiveTimers(<<gameTime>>, events)]

----------------------------------------------------------------------------
(* What the claims speak of *)

TipKeys(ts) == {ts[i].key : i \in 1..Len(ts)}

CountIn(ts, k) == Cardinality({i \in 1..Len(ts) : ts[i].key = k})

\* every cannon wave of the laning phase: index i, spawn time 90 + 30 (i - 1)
AllCannonWaves == {i \in 1..((END - FIRST_WAVE) \div CADENCE + 1) : i % 3 = 0}
WaveTime(i) == FIRST_WAVE + (i - 1) * CADENCE

\* the lead-time window of an occurrence at time T, as the specification states it
InLeadWindow(T, now, lead) ==
    /\ 0 < T - now
    /\ T - now <= lead
    /\ 10 * (T - now) > 10 * lead - 21

\* the occurrences of a rule that a snapshot shows: <<occurrence, time>>
OccurrencesOf(rule, snap) ==
    IF rule.trigger.type = "cannon_wave"
    THEN {<<i, WaveTime(i)>> : i \in AllCannonWaves}
    ELSE IF rule.trigger.type = "objective_spawn"
    THEN {<<snap.objectives[rule.trigger.objective].nextSpawnTime,
            snap.objectives[rule.trigger.objective].nextSpawnTime>>}
    ELSE {}

\* the rules of the enabled modules that apply to the snapshot
ActiveRules(modules, snap) ==
    {r \in UNION {Range(modules[i].rules) : i \in {j \in 1..Len(modules) : modules[j].enabled}} :
        applicable(r, snap)}

\* the keys whose lead-time window the snapshot lies in
KeysInWindow(modules, snap) ==
    UNION {{<<r.id, r.trigger.objective, l, o[1]>> :
              <<l, o>> \in {lo \in Range(r.trigger.leadSeconds.list) \X OccurrencesOf(r, snap) :
                              InLeadWindow(lo[2][2], snap.time, lo[1])}} :
           r \in ActiveRules(modules, snap)}

\* of those, the keys the tick has an eye on: its rule was evaluated, and for
\* a cannon wave the wave is one of the five getNextCannonWavesBefore20 returns
KeysInView(modules, snap, st) ==
    {k \in KeysInWindow(modules, snap) :
        /\ k[1] \in st.evaluated
        /\ k[2] = "cannon_wave" =>
             k[4] \in {w.waveIndex : w \in Range(getNextCannonWavesBefore20(snap.time))}}

----------------------------------------------------------------------------
(* Each specification runs one part of the program; the other parts rest *)

TipsIdle ==
    /\ config = <<>> /\ lastNow = 0 /\ fired = {} /\ lastFiredAtMs = <<>>
    /\ wallMs = 0 /\ tips = <<>> /\ last = [kind |-> "idle"] /\ hist = <<>>
    /\ pending = <<>>

LoadIdle == rulesDir = <<>> /\ loaded = <<>> /\ loadPc = "idle"

PollIdle ==
    /\ pollIntervalMs = 0 /\ pollTimer = 0 /\ armed = {} /\ timersMade = 0
    /\ inFlight = 0 /\ lastSnapshot = 0 /\ settingsFile = 0 /\ saving = <<>>

CallIdle == callArgs = <<>> /\ callOut = <<>> /\ callPrev = <<>>

UiIdle == windows = {} /\ sent = {} /\ inbox = <<>> /\ view = <<>> /\ uiLast = <<>>

AggIdle ==
    /\ world = <<>> /\ aggPc = "idle" /\ core = <<>> /\ opt = <<>>
    /\ loops = <<>> /\ ddragon = <<>> /\ result = <<>>

----------------------------------------------------------------------------
(* The engine as a state machine *)

NoStep(kind) ==
    [kind |-> kind, now |-> 0, mode |-> "", prevNow |-> 0, regressed |-> FALSE,
     inWindow |-> {}, inView |-> {}, suppressed |-> {}, evaluated |-> {},
     thrown |-> FALSE, active |-> {}, refired |-> {}, eligible |-> {}, gaps |-> {},
     started |-> <<>>, modules |-> <<>>]

NoHist ==
    [mono |-> TRUE, count |-> <<>>, crossed |-> {}, due |-> {},
     sinceReset |-> {}, cleared |-> {}, lastEmit |-> <<>>]

\* new TipsEngine(...): the fields' initializers, then reload()
TipsInitFrom(dirs) ==
    /\ config \in {loadYamlFiles(d) : d \in dirs}
    /\ lastNow = 0
    /\ fired = {}
    /\ lastFiredAtMs = <<>>
    /\ wallMs = EpochMs
    /\ tips = <<>>
    /\ last = NoStep("init")
    /\ hist = NoHist
    /\ pending = <<>>

TipsInit == TipsInitFrom(Dirs \ {DirNoTrigger})

\* the history after a tick that emitted ts at wall time nowMs
HistAfter(h, step, ts, firedBefore, nowMs) ==
    LET mono == h.mono /\ ~step.regressed
        emitted == TipKeys(ts)
        throttleOf(k) == (CHOOSE i \in 1..Len(ts) : ts[i].key = k)
    IN [mono |-> mono,
        count |-> IF ~mono THEN <<>>
                  ELSE [k \in (DOMAIN h.count) \cup emitted |->
                          Min(MaxCount, MapGetOr0(h.count, k) + CountIn(ts, k))],
        crossed |-> IF ~mono THEN {} ELSE h.crossed \cup step.inWindow,
        due |-> IF ~mono THEN {} ELSE h.due \cup step.inView,
        sinceReset |-> (IF step.regressed THEN {} ELSE h.sinceReset) \cup emitted,
        cleared |-> (h.cleared \cup (IF step.regressed THEN firedBefore ELSE {})) \ emitted,
        lastEmit |-> [k \in (DOMAIN h.lastEmit) \cup emitted |->
                        IF k \in emitted
                        THEN [ms |-> nowMs, throttleMs |-> ts[throttleOf(k)].throttleMs]
                        ELSE h.lastEmit[k]]]

\* what a tick did, for the claims: the keys in window, re-fired, made
\* eligible again by a reset, and the wall-clock gap to the previous emission
\* of each key emitted
StepOf(t, snap, st, nowMs) ==
    [kind |-> "tick", now |-> t, mode |-> snap.mode, prevNow |-> lastNow,
     regressed |-> t < lastNow,
     inWindow |-> KeysInWindow(config, snap),
     inView |-> KeysInView(config, snap, st),
     suppressed |-> st.suppressed,
     evaluated |-> st.evaluated,
     thrown |-> st.thrown,
     active |-> {r.id : r \in {x \in ActiveRules(config, snap) :
                                    x.trigger.type # "undefined"}},
     refired |-> TipKeys(st.tips) \cap hist.sinceReset,
     eligible |-> hist.cleared \cup (IF t < lastNow THEN fired ELSE {}),
     gaps |-> {[key |-> st.tips[i].key,
                gapMs |-> nowMs - hist.lastEmit[st.tips[i].key].ms,
                throttleMs |-> st.tips[i].throttleMs,
                prevThrottleMs |-> hist.lastEmit[st.tips[i].key].throttleMs] :
               i \in {j \in 1..Len(st.tips) : st.tips[j].key \in DOMAIN hist.lastEmit}}]

\* a rule loop that took its first module before the await of tick
modulesMixed(startModules, nowModules) ==
    IF startModules = <<>> \/ nowModules = <<>> THEN nowModules
    ELSE <<Head(startModules)>> \o Tail(nowModules)

\* this.config.modules || [], read at the head of the rule loop, after the
\* await: startModules is what was loaded when the tick was called
modulesRead(startModules, nowModules) == nowModules

\* a tick whose getSnapshot() resolved: lines 229-347 run without a break;
\* startModules is what was loaded when the tick was called
TickOver(times, logs, modes, startModules) ==
    \E t \in times, ev \in logs, m \in modes, d \in 1..2 :
        /\ wallMs + d * WallStepMs <= EpochMs + MaxWallSteps * WallStepMs
        /\ \E snap \in {SnapshotOf(t, m, ev)} :
           \E mods \in {modulesRead(startModules, config)} :
           \E st \in {tickEval(mods, fired, lastFiredAtMs, lastNow, snap,
                               wallMs + d * WallStepMs)} :
           \E step \in {StepOf(t, snap, st, wallMs + d * WallStepMs)
                            @@ [started |-> startModules, modules |-> mods]} :
              /\ wallMs' = wallMs + d * WallStepMs
              /\ lastNow' = t
              /\ fired' = st.fired
              /\ lastFiredAtMs' = st.lastFiredAtMs
              /\ tips' = st.tips
              /\ last' = step
              /\ hist' = HistAfter(hist, step, st.tips, fired, wallMs + d * WallStepMs)
              /\ UNCHANGED <<config, loadVars, pollVars, aggVars, callVars, uiVars>>

\* the same over the game times and event logs of the tips specifications
TickBody(modes, startModules) == TickOver(Times, EventLogs, modes, startModules)

\* a tick with nothing happening during its await
TickIn(modes) == TickBody(modes, config) /\ UNCHANGED pending

Tick == TickIn(Modes)

\* a failed tick that takes the game time of a missing snapshot to be 0
TickFailedResets ==
    \E d \in 1..2 :
        /\ wallMs + d * WallStepMs <= EpochMs + MaxWallSteps * WallStepMs
        /\ wallMs' = wallMs + d * WallStepMs
        /\ tips' = <<>>
        /\ last' = NoStep("tickFailed")
        /\ lastNow' = 0
        /\ UNCHANGED <<config, fired, lastFiredAtMs, hist, loadVars, pollVars, aggVars, callVars, uiVars>>

\* a tick whose getSnapshot() rejected: the catch of tick swallows it
TickFailedBody ==
    \E d \in 1..2 :
        /\ wallMs + d * WallStepMs <= EpochMs + MaxWallSteps * WallStepMs
        /\ wallMs' = wallMs + d * WallStepMs
        /\ tips' = <<>>
        /\ last' = NoStep("tickFailed")
        /\ UNCHANGED <<config, lastNow, fired, lastFiredAtMs, hist, loadVars, pollVars, aggVars, callVars, uiVars>>

TickFailed == TickFailedBody /\ UNCHANGED pending

\* a reload that starts the engine afresh
ReloadClears(dirs) ==
    \E dir \in dirs :
        /\ config' = loadYamlFiles(dir)
        /\ config' # config
        /\ tips' = <<>>
        /\ last' = NoStep("reload")
        /\ fired' = {}
        /\ UNCHANGED <<lastNow, lastFiredAtMs, wallMs, hist, pending, loadVars, pollVars, aggVars, callVars, uiVars>>

\* the fs.watch callback: reload()
ReloadFrom(dirs) ==
    \E dir \in dirs :
        /\ config' = loadYamlFiles(dir)
        /\ config' # config
        /\ tips' = <<>>
        /\ last' = NoStep("reload")
        /\ UNCHANGED <<lastNow, fired, lastFiredAtMs, wallMs, hist, pending, loadVars, pollVars, aggVars, callVars, uiVars>>

Reload == ReloadFrom(Dirs)

Init == TipsInit /\ LoadIdle /\ PollIdle /\ AggIdle /\ CallIdle /\ UiIdle

Next == Tick \/ TickFailed \/ Reload

Spec == Init /\ [][Next]_vars

\* the engine over rule documents with enabled flags and when blocks, in
\* games of every mode
GuardedTick == TickIn(GameModes)

GuardsReload == ReloadFrom(GuardDirs)

SpecGuardsInit == TipsInitFrom(GuardDirs) /\ LoadIdle /\ PollIdle /\ AggIdle /\ CallIdle /\ UiIdle

SpecGuardsNext == GuardedTick \/ TickFailed \/ GuardsReload

SpecGuards == SpecGuardsInit /\ [][SpecGuardsNext]_vars

----------------------------------------------------------------------------
(* Claims on the tips engine *)

\* C1: a key emitted since the latest clock regression is emitted again only
\* by a tick that observes a game clock lower than the previous tick's, and
\* no tick emits a key twice.
C1_NoRefireWithoutRegression ==
    last.kind = "tick" =>
        /\ last.refired # {} => last.now < last.prevNow
        /\ \A k \in TipKeys(tips) : CountIn(tips, k) = 1

\* C1 witness: a tick without regression has a fired key in its window, in
\* view and not throttled, and emits nothing for it.
C1_Witness ==
    /\ last.kind = "tick" /\ ~last.regressed
    /\ \E k \in last.inView \cap fired : k \notin TipKeys(tips) /\ k \notin last.suppressed

C4_ThrottleSurvivesReset ==
    /\ last.kind = "tick" =>
          \A g \in last.gaps :
              (g.throttleMs > 0 /\ g.prevThrottleMs = g.throttleMs) => g.gapMs >= g.throttleMs
    /\ \A k \in DOMAIN hist.lastEmit :
          hist.lastEmit[k].throttleMs > 0 =>
              MapGetOr0(lastFiredAtMs, k) = hist.lastEmit[k].ms

\* C4 witness: a tick observes a regression, finds a key in its window that is
\* no longer in the fired set, and the throttle suppresses it.
C4_Witness ==
    /\ last.kind = "tick" /\ last.regressed
    /\ \E k \in last.suppressed : k \in last.eligible /\ k \notin TipKeys(tips) /\ k \notin fired

\* C5: every tip is emitted by a tick whose game time is inside the lead-time
\* window of the tip's occurrence: 0 < T - now <= lead and T - now > lead - 2.1.
C5_EmittedInsideWindow ==
    last.kind = "tick" =>
        \A i \in 1..Len(tips) : InLeadWindow(tips[i].spawnTime, last.now, tips[i].lead)

\* C5 witness: one tick emits for a cannon wave and for an objective, one of
\* them at the far edge of the slack.
C5_Witness ==
    /\ last.kind = "tick"
    /\ \E i, j \in 1..Len(tips) :
          /\ tips[i].key[2] = "cannon_wave"
          /\ tips[j].key[2] = "dragon"
          /\ tips[i].spawnTime - last.now = tips[i].lead - 2

\* C6 as stated: every rule of an enabled module that applies to the tick's
\* snapshot and has a trigger is evaluated by the tick, whatever other rules throw.
C6_EveryRuleEvaluated ==
    last.kind = "tick" => last.active \subseteq last.evaluated

\* the tips of the latest tick that carry the id of a rule
TipsOf(rule) == {k \in 1..Len(tips) : tips[k].id = rule.id}

\* a tip of the latest tick has the trigger of the rule: objective and lead
SameTriggerEmitted(rule) ==
    \E k \in 1..Len(tips) :
        /\ tips[k].key[2] = rule.trigger.objective
        /\ tips[k].lead \in Range(rule.trigger.leadSeconds.list)

\* C19: no tip is emitted, at any tick and for any snapshot, for a rule whose
\* enabled flag is false or whose module's enabled flag is false
C19_DisabledNeverEmits ==
    \A i \in 1..Len(config) : \A j \in 1..Len(config[i].rules) :
        (~config[i].enabled \/ ~config[i].rules[j].enabled)
            => TipsOf(config[i].rules[j]) = {}

\* a tick at which an enabled rule emitted for the trigger that a disabled
\* rule shares, while the cannon rule of a disabled module had wave 36 in
\* its lead-time window
C19_Witness ==
    /\ last.kind = "tick"
    /\ \E i \in 1..Len(config) : \E j \in 1..Len(config[i].rules) :
          /\ config[i].enabled
          /\ ~config[i].rules[j].enabled
          /\ SameTriggerEmitted(config[i].rules[j])
    /\ \E i \in 1..Len(config) : \E j \in 1..Len(config[i].rules) :
          /\ ~config[i].enabled
          /\ config[i].rules[j].enabled
          /\ config[i].rules[j].trigger.type = "cannon_wave"
          /\ \E lead \in Range(config[i].rules[j].trigger.leadSeconds.list) :
                InLeadWindow(WaveTime(36), last.now, lead)

----------------------------------------------------------------------------
(* Ticks and reloads in the event loop: the interval timer calls tick, which *)
(* awaits getSnapshot(); the fs.watch callback may run during that await     *)
(* (preload.ts 194-239).                                                      *)

MaxPending == 1

\* the rule directories the watcher sees
ReloadDirs == {DirPlain, DirFar}

RemoveAt(seq, i) == SubSeq(seq, 1, i - 1) \o SubSeq(seq, i + 1, Len(seq))

\* setInterval(() => void this.tick(), 1000): tick runs up to its await
TimerFires ==
    /\ Len(pending) < MaxPending
    /\ pending' = Append(pending, config)
    /\ UNCHANGED <<config, lastNow, fired, lastFiredAtMs, wallMs, tips, last, hist>>
    /\ UNCHANGED <<loadVars, pollVars, aggVars, callVars, uiVars>>

\* getSnapshot() of one of the awaiting ticks resolves, in any order
TickResumes ==
    \E i \in 1..Len(pending) :
        /\ TickBody(Modes, pending[i])
        /\ pending' = RemoveAt(pending, i)

\* getSnapshot() of one of the awaiting ticks rejects
TickRejects ==
    \E i \in 1..Len(pending) :
        /\ TickFailedBody
        /\ pending' = RemoveAt(pending, i)

WatchFires == ReloadFrom(ReloadDirs)

SpecReloadInit == TipsInitFrom(ReloadDirs) /\ LoadIdle /\ PollIdle /\ AggIdle /\ CallIdle /\ UiIdle

SpecReloadNext == TimerFires \/ TickResumes \/ TickRejects \/ WatchFires

SpecReload == SpecReloadInit /\ [][SpecReloadNext]_vars

RuleIdsOf(modules) == UNION {{modules[i].rules[j].id : j \in 1..Len(modules[i].rules)} : i \in 1..Len(modules)}

\* C22: a reload is atomic with respect to ticks: the rule evaluation of a
\* tick uses the complete rule set from before the reload or the complete
\* rule set from after it, never modules from both
C22_ReloadAtomicForTicks ==
    last.kind = "tick" =>
        /\ last.modules = last.started \/ last.modules = config
        /\ last.evaluated \subseteq RuleIdsOf(last.modules)

\* a tick whose await saw a reload to a rule set with other modules, and that
\* then evaluated rules and emitted
C22_Witness ==
    /\ last.kind = "tick"
    /\ last.started # config
    /\ last.started # <<>>
    /\ Head(last.started) # Head(config)
    /\ last.evaluated # {}
    /\ tips # <<>>

\* the cannon-wave tips of the latest tick
CannonTips == {k \in 1..Len(tips) : tips[k].key[2] = "cannon_wave"}

\* C21: a cannon_wave rule emits only during the laning phase: a tick whose
\* game time is >= 1200 emits no cannon-wave tip, and every cannon-wave tip
\* emitted is for a wave that spawns at 1200 or before
C21_CannonOnlyWhileLaning ==
    /\ last.now >= 1200 => CannonTips = {}
    /\ \A k \in CannonTips : tips[k].spawnTime <= 1200

\* a tick emitted for the last cannon wave of the laning phase, wave 36 at
\* 1140, with a cannon rule loaded whose lead reaches the wave after it
C21_Witness ==
    /\ last.kind = "tick"
    /\ \E k \in CannonTips : tips[k].key[4] = 36 /\ tips[k].spawnTime = 1140
    /\ \E i \in 1..Len(config) : \E j \in 1..Len(config[i].rules) :
          /\ config[i].enabled
          /\ config[i].rules[j].trigger.type = "cannon_wave"
          /\ \E lead \in Range(config[i].rules[j].trigger.leadSeconds.list) :
                InLeadWindow(WaveTime(39), last.now, lead)

\* C20: a rule emits only at ticks whose snapshot is inside its applicability
\* window: game time >= when.phase.minGameTimeSec and <= when.phase.maxGameTimeSec,
\* each bound only when given, and, when when.modes is a non-empty list, the
\* snapshot's game mode non-empty and a member of the list
C20_EmitsOnlyWhenApplicable ==
    \A i \in 1..Len(config) : \A j \in 1..Len(config[i].rules) :
        TipsOf(config[i].rules[j]) # {} =>
            LET when == config[i].rules[j].when
            IN /\ (when.hasPhase /\ when.hasMin) => last.now >= when.min
               /\ (when.hasPhase /\ when.hasMax) => last.now <= when.max
               /\ when.modes # <<>> => (last.mode # "" /\ last.mode \in Range(when.modes))

\* a rule with a lower time bound and a mode list emitted, at a tick at which
\* a rule of the same trigger with an upper time bound did not
C20_Witness ==
    /\ last.kind = "tick"
    /\ \E i \in 1..Len(config) : \E j, k \in 1..Len(config[i].rules) :
          /\ config[i].rules[j].when.hasMin
          /\ config[i].rules[j].when.modes # <<>>
          /\ TipsOf(config[i].rules[j]) # {}
          /\ config[i].rules[k].enabled
          /\ config[i].rules[k].when.hasMax
          /\ config[i].rules[k].trigger = config[i].rules[j].trigger
          /\ TipsOf(config[i].rules[k]) = {}

----------------------------------------------------------------------------
(* loadYamlFiles over a rules directory *)

\* what a directory entry can be: a rule document with one module, a rule
\* document without modules, a document that fails to read or parse, another file
FilesAt(i) ==
    {File("yml", TRUE, <<Mod(i, TRUE, <<>>)>>),
     File("yaml", TRUE, <<Mod(i, TRUE, <<>>)>>),
     File("yml", TRUE, <<>>),
     File("yml", FALSE, <<>>),
     File("md", TRUE, <<>>)}

DirListings ==
    UNION {{d \in [1..n -> UNION {FilesAt(i) : i \in 1..n}] :
              \A i \in 1..n : d[i] \in FilesAt(i)} : n \in 0..MaxFiles}

LoadInit == rulesDir \in DirListings /\ loaded = <<>> /\ loadPc = "ready"

\* reload(): this.config = loadYamlFiles(this.configDir)
LoadRun ==
    /\ loadPc = "ready"
    /\ loaded' = loadYamlFiles(rulesDir)
    /\ loadPc' = "loaded"
    /\ UNCHANGED <<rulesDir, tipsVars, pollVars, aggVars, callVars, uiVars>>

\* the directory changes and fs.watch calls back
DirChanged ==
    /\ loadPc = "loaded"
    /\ rulesDir' \in DirListings
    /\ rulesDir' # rulesDir
    /\ loadPc' = "ready"
    /\ UNCHANGED <<loaded, tipsVars, pollVars, aggVars, callVars, uiVars>>

SpecLoadInit == LoadInit /\ TipsIdle /\ PollIdle /\ AggIdle /\ CallIdle /\ UiIdle

SpecLoadNext == LoadRun \/ DirChanged

SpecLoad == SpecLoadInit /\ [][SpecLoadNext]_vars

\* a rule document that reads and parses
IsRuleDocument(f) == f.ext \in {"yml", "yaml"} /\ f.readable

\* C7 as stated: after a load, the modules of every rule document that reads
\* and parses are in the loaded rule set, whatever other documents fail.
C7_OnlyFailedDocumentSkipped ==
    loadPc = "loaded" =>
        \A i \in 1..Len(rulesDir) :
            IsRuleDocument(rulesDir[i]) => Range(rulesDir[i].modules) \subseteq Range(loaded)

----------------------------------------------------------------------------
(* The poll loop of the main process *)

\* Math.max(250, Math.min(10000, Number(ms) || 1000))
clampInterval(ms) == Max(250, Min(10000, IF ms = 0 THEN 1000 ELSE ms))

\* stopPolling(): clearInterval(pollTimer)
stopPolling(timers, timer) == {t \in timers : timer = 0 \/ t.id # timer}

\* what setPollingInterval is called with
Requests == {0, 100, 500, 20000}

\* what settings.json holds at launch: no file, or a stored interval
StoredSettings == {0, 500}

\* startPolling(): stopPolling(); pollTimer = setInterval(pollOnce, pollIntervalMs);
\* void pollOnce()
startPolling(ms) ==
    /\ timersMade < MaxTimers
    /\ inFlight < MaxInFlight
    /\ timersMade' = timersMade + 1
    /\ pollTimer' = timersMade + 1
    /\ armed' = stopPolling(armed, pollTimer) \cup {[id |-> timersMade + 1, ms |-> ms]}
    /\ inFlight' = inFlight + 1

\* app.whenReady: loadSettings(), pollIntervalMs = settings.pollIntervalMs ?? 1000,
\* startPolling()
PollInit ==
    /\ settingsFile \in StoredSettings
    /\ pollIntervalMs = (IF settingsFile = 0 THEN 1000 ELSE settingsFile)
    /\ timersMade = 1
    /\ pollTimer = 1
    /\ armed = {[id |-> 1, ms |-> pollIntervalMs]}
    /\ inFlight = 1
    /\ lastSnapshot = 0
    /\ saving = <<>>

\* an armed interval timer fires: pollOnce() starts and awaits its fetches
PollTimerFires ==
    /\ armed # {}
    /\ inFlight < MaxInFlight
    /\ inFlight' = inFlight + 1
    /\ UNCHANGED <<pollIntervalMs, pollTimer, armed, timersMade, lastSnapshot,
                   settingsFile, saving, tipsVars, loadVars, aggVars, callVars, uiVars>>

\* getAggregatedSnapshot() resolves in a pollOnce: lastSnapshot = snapshot
PollResolves ==
    /\ inFlight > 0
    /\ inFlight' = inFlight - 1
    /\ lastSnapshot' = 1
    /\ UNCHANGED <<pollIntervalMs, pollTimer, armed, timersMade, settingsFile, saving,
                   tipsVars, loadVars, aggVars, callVars, uiVars>>

\* getAggregatedSnapshot() rejects in a pollOnce: lastSnapshot stays
PollRejects ==
    /\ inFlight > 0
    /\ inFlight' = inFlight - 1
    /\ UNCHANGED <<pollIntervalMs, pollTimer, armed, timersMade, lastSnapshot,
                   settingsFile, saving, tipsVars, loadVars, aggVars, callVars, uiVars>>

\* ipcMain getSnapshot: if (!lastSnapshot) await pollOnce()
GetSnapshotCalled ==
    /\ lastSnapshot = 0
    /\ inFlight < MaxInFlight
    /\ inFlight' = inFlight + 1
    /\ UNCHANGED <<pollIntervalMs, pollTimer, armed, timersMade, lastSnapshot,
                   settingsFile, saving, tipsVars, loadVars, aggVars, callVars, uiVars>>

\* ipcMain setPollingInterval, up to its await: pollIntervalMs = clamped,
\* saveSettings({pollIntervalMs: clamped}) begins
setPollingIntervalBegins(ms) ==
    /\ Len(saving) < MaxSaving
    /\ pollIntervalMs' = clampInterval(ms)
    /\ saving' = Append(saving, clampInterval(ms))
    /\ UNCHANGED <<pollTimer, armed, timersMade, inFlight, lastSnapshot,
                   settingsFile, tipsVars, loadVars, aggVars, uiVars>>

SetPollingIntervalCalled ==
    \E ms \in Requests : setPollingIntervalBegins(ms) /\ UNCHANGED callVars

\* saveSettings of one call has written the file and the call goes on:
\* startPolling()
setPollingIntervalEnds ==
    \E i \in 1..Len(saving) :
        /\ settingsFile' = saving[i]
        /\ saving' = SubSeq(saving, 1, i - 1) \o SubSeq(saving, i + 1, Len(saving))
        /\ startPolling(pollIntervalMs)
        /\ UNCHANGED <<pollIntervalMs, lastSnapshot, tipsVars, loadVars, aggVars, uiVars>>

SetPollingIntervalResumes == setPollingIntervalEnds /\ UNCHANGED callVars

SpecPollInit == PollInit /\ TipsIdle /\ LoadIdle /\ AggIdle /\ CallIdle /\ UiIdle

SpecPollNext ==
    \/ PollTimerFires
    \/ PollResolves
    \/ PollRejects
    \/ GetSnapshotCalled
    \/ SetPollingIntervalCalled
    \/ SetPollingIntervalResumes

SpecPoll == SpecPollInit /\ [][SpecPollNext]_vars

\* C8 as stated: at no time are two pollOnce executions in flight.
C8_NoOverlappingCycles == inFlight <= 1

----------------------------------------------------------------------------
(* The aggregator (riotClient.getAggregatedSnapshot)                       *)
(*                                                                         *)
(* Identity strings are sequences of one-character strings, so that trim,  *)
(* toLowerCase, includes and split act on them as in the source; "" is     *)
(* <<>>, and so are null and undefined where the source only tests         *)
(* truthiness.                                                             *)

Hash == <<"#">>

LowerTable ==
    [A |-> "a", B |-> "b", E |-> "e", K |-> "k", N |-> "n", S |-> "s"]

toLowerCase(str) ==
    [i \in 1..Len(str) |->
        IF str[i] \in DOMAIN LowerTable THEN LowerTable[str[i]] ELSE str[i]]

Whitespace == {" "}

RECURSIVE trimStart(_)
trimStart(str) ==
    IF str # <<>> /\ Head(str) \in Whitespace THEN trimStart(Tail(str)) ELSE str

RECURSIVE trimEnd(_)
trimEnd(str) ==
    IF str # <<>> /\ str[Len(str)] \in Whitespace
    THEN trimEnd(SubSeq(str, 1, Len(str) - 1)) ELSE str

trim(str) == trimEnd(trimStart(str))

includes(str, ch) == \E i \in 1..Len(str) : str[i] = ch

\* the piece of str before the first ch, or all of str
UpTo(str, ch) ==
    IF includes(str, ch)
    THEN SubSeq(str, 1, (CHOOSE i \in 1..Len(str) :
                            str[i] = ch /\ \A j \in 1..(i - 1) : str[j] # ch) - 1)
    ELSE str

\* str.split(ch)[0] and str.split(ch)[1]; the latter <<>> when undefined
split0(str, ch) == UpTo(str, ch)

split1(str, ch) ==
    IF includes(str, ch)
    THEN UpTo(SubSeq(str, Len(UpTo(str, ch)) + 2, Len(str)), ch)
    ELSE <<>>

\* a || b on strings
Or(a, b) == IF a # <<>> THEN a ELSE b

normalizeIdString(str) == toLowerCase(trim(str))

\* p is <<>> (null) or a roster entry
buildFullRiotId(p) ==
    IF p = <<>> THEN <<>>
    ELSE IF includes(p.riotId, "#") THEN p.riotId
    ELSE IF p.riotIdGameName # <<>> /\ p.riotIdTagLine # <<>>
         THEN p.riotIdGameName \o Hash \o p.riotIdTagLine
    ELSE p.summonerName

\* the active identity, from the body of /liveclientdata/activeplayername
activeIdentity(activePlayerName) ==
    LET apIsString == activePlayerName.isString
        apString == IF apIsString THEN activePlayerName.str ELSE <<>>
        apRiotIdFromString == IF includes(apString, "#") THEN apString ELSE <<>>
        apGameNameFromString ==
            IF apRiotIdFromString # <<>> THEN split0(apRiotIdFromString, "#")
            ELSE apString
        apTagFromString ==
            IF apRiotIdFromString # <<>> THEN split1(apRiotIdFromString, "#")
            ELSE <<>>
        apGameName ==
            Or(IF apIsString THEN <<>> ELSE activePlayerName.riotIdGameName,
               apGameNameFromString)
        apTagLine ==
            Or(IF apIsString THEN <<>> ELSE activePlayerName.riotIdTagLine,
               apTagFromString)
        apFullRiotId ==
            Or(IF apIsString THEN <<>> ELSE activePlayerName.riotId,
               IF apGameName # <<>> /\ apTagLine # <<>>
               THEN apGameName \o Hash \o apTagLine ELSE <<>>)
    IN [apString |-> apString, apRiotIdFromString |-> apRiotIdFromString,
        apGameName |-> apGameName, apTagLine |-> apTagLine,
        apFullRiotId |-> apFullRiotId]

\* the match loop over the roster; me is <<>> or <<entry>>
RECURSIVE matchLoop(_, _, _)
matchLoop(ap, players, me) ==
    IF players = <<>> THEN me
    ELSE
    LET p == Head(players)
        pFull == buildFullRiotId(p)
    IN IF /\ ap.apFullRiotId # <<>>
          /\ normalizeIdString(pFull) = normalizeIdString(ap.apFullRiotId)
       THEN <<p>>
       ELSE
       LET me2 == IF /\ me = <<>>
                     /\ ap.apGameName # <<>>
                     /\ ap.apTagLine # <<>>
                     /\ normalizeIdString(p.riotIdGameName)
                            = normalizeIdString(ap.apGameName)
                     /\ normalizeIdString(p.riotIdTagLine)
                            = normalizeIdString(ap.apTagLine)
                  THEN <<p>> ELSE me
           me3 == IF /\ me2 = <<>>
                     /\ ap.apGameName # <<>>
                     /\ normalizeIdString(p.riotIdGameName)
                            = normalizeIdString(ap.apGameName)
                  THEN <<p>> ELSE me2
           me4 == IF /\ me3 = <<>>
                     /\ ap.apString # <<>>
                     /\ ap.apRiotIdFromString = <<>>
                     /\ normalizeIdString(p.summonerName)
                            = normalizeIdString(ap.apString)
                  THEN <<p>> ELSE me3
       IN matchLoop(ap, Tail(players), me4)

\* the match loop without the fallback to the first roster entry
resolveMeNoFallback(ap, players) ==
    LET me == matchLoop(ap, players, <<>>)
    IN IF me = <<>> THEN <<>> ELSE me[1]

resolveMe(ap, players) ==
    LET me == matchLoop(ap, players, <<>>)
    IN IF me = <<>> /\ players # <<>> THEN players[1] ELSE
       IF me = <<>> THEN <<>> ELSE me[1]

\* Array.from(new Set(list)): first occurrences, in order
RECURSIVE uniq(_, _)
uniq(list, seen) ==
    IF list = <<>> THEN seen
    ELSE uniq(Tail(list),
              IF \E i \in 1..Len(seen) : seen[i] = Head(list)
              THEN seen ELSE Append(seen, Head(list)))

riotIdCandidates(ap, me) ==
    LET forms ==
            << ap.apFullRiotId,
               buildFullRiotId(me),
               IF me # <<>> /\ me.riotIdGameName # <<>> /\ me.riotIdTagLine # <<>>
               THEN me.riotIdGameName \o Hash \o me.riotIdTagLine ELSE <<>>,
               IF me # <<>> THEN me.riotIdGameName ELSE <<>>,
               IF me # <<>> THEN me.summonerName ELSE <<>>,
               ap.apString >>
        truthy == SelectSeq(forms, LAMBDA f : f # <<>>)
    IN uniq([i \in 1..Len(truthy) |-> trim(truthy[i])], <<>>)

(* Bodies.  The parsed body of a response is a record of the fields the    *)
(* source reads from it; a field that may be absent is <<>> or <<value>>.  *)
(* getJson resolves with whatever JSON the upstream sent, whatever the     *)
(* status code: NotFound is the error object of a non-200 answer, which    *)
(* has none of the fields of any dataset.                                  *)

Null == <<>>

NotFound ==
    [httpStatus |-> 404,
     gameMode |-> "", gameTime |-> <<>>, Events |-> <<>>,
     isString |-> FALSE, str |-> <<>>,
     riotId |-> <<>>, riotIdGameName |-> <<>>, riotIdTagLine |-> <<>>,
     isArray |-> FALSE, list |-> <<>>, data |-> <<>>,
     kills |-> <<>>, deaths |-> <<>>, assists |-> <<>>,
     creepScore |-> <<>>, wardScore |-> <<>>,
     summonerSpellOne |-> <<>>, summonerSpellTwo |-> <<>>,
     keystone |-> <<>>, primaryRuneTree |-> <<>>, secondaryRuneTree |-> <<>>,
     Q |-> <<>>, W |-> <<>>, E |-> <<>>, R |-> <<>>]

\* x?.f ?? 0 for a number field
NumOr0(x, f) == IF x = Null \/ x[f] = <<>> THEN 0 ELSE x[f][1]

\* x?.f?.displayName || dflt
NameOr(x, f, dflt) ==
    IF x = Null \/ x[f] = <<>> \/ x[f][1].displayName = "" THEN dflt
    ELSE x[f][1].displayName

\* x?.f?.id, 0 when undefined
IdOf(x, f) == IF x = Null \/ x[f] = <<>> THEN 0 ELSE x[f][1].id

\* myAbilities?.K ? { name: K.displayName || "K" } : null
abilityOf(myAbilities, k) ==
    IF myAbilities = Null \/ myAbilities[k] = <<>> THEN Null
    ELSE [name |-> NameOr(myAbilities, k, k)]

\* static lookup table of display names (data/riot/gameModes.json)
GameModeMap == [CLASSIC |-> "Summoner's Rift", ARAM |-> "ARAM"]

resolveGameModeName(mode) ==
    IF mode = "" THEN ""
    ELSE IF mode \in DOMAIN GameModeMap THEN GameModeMap[mode] ELSE mode

\* [...myItems].sort((a, b) => (a.slot || 0) - (b.slot || 0)), stable
slotKey(item) == IF item.slot = <<>> THEN 0 ELSE item.slot[1]

RECURSIVE sortBySlot(_)
sortBySlot(items) ==
    IF items = <<>> THEN <<>>
    ELSE LET r == sortBySlot(Tail(items))
             h == Head(items)
             n == Cardinality({i \in 1..Len(r) : slotKey(r[i]) < slotKey(h)})
         IN SubSeq(r, 1, n) \o <<h>> \o SubSeq(r, n + 1, Len(r))

\* a slot reading that takes a missing slot for slot 0, as the sort key does
slotOrZero(item) == IF item.slot = <<>> THEN 0 ELSE item.slot[1]

\* typeof item.slot === "number" ? item.slot : -1
slotOf(item) == IF item.slot = <<>> THEN -1 ELSE item.slot[1]

\* the 7 slots, each Null or <<displayName>>; a later item of the sorted list
\* overwrites an earlier one in the same slot
RECURSIVE fillSlots(_, _)
fillSlots(sorted, itemsBySlot) ==
    IF sorted = <<>> THEN itemsBySlot
    ELSE LET item == Head(sorted)
             slot == slotOf(item)
         IN fillSlots(Tail(sorted),
                IF slot >= 0 /\ slot <= 6 /\ item.displayName # ""
                THEN [itemsBySlot EXCEPT ![slot + 1] = <<item.displayName>>]
                ELSE itemsBySlot)

itemsBySlotOf(myItems) == fillSlots(sortBySlot(myItems), [i \in 1..7 |-> Null])

\* the playeritems result: the body when it is an array, its data field when
\* that is one, [] otherwise
unwrapItems(resData) ==
    IF resData = Null THEN <<>>
    ELSE IF resData.isArray THEN resData.list
    ELSE IF resData.data # <<>> THEN resData.data[1]
    ELSE <<>>

\* Map of roster names to teams: a later entry of the roster overwrites
RECURSIVE nameToTeamOf(_, _)
nameToTeamOf(players, m) ==
    IF players = <<>> THEN m
    ELSE LET p == Head(players)
             m1 == IF p.riotIdGameName # <<>>
                   THEN MapSet(m, p.riotIdGameName, p.team) ELSE m
             m2 == IF p.summonerName # <<>>
                   THEN MapSet(m1, p.summonerName, p.team) ELSE m1
         IN nameToTeamOf(Tail(players), m2)

\* nameToTeam.get(name) || ""
teamOf(nameToTeam, name) ==
    IF name # <<>> /\ name \in DOMAIN nameToTeam THEN nameToTeam[name] ELSE ""

KillerOf(ev) == IF "KillerName" \in DOMAIN ev THEN ev.KillerName ELSE <<>>

\* the event tally; enemyTeam is Null or <<team>>
tally(events, nameToTeam, myTeam, enemyTeam) ==
    LET mine(name, needKiller) ==
            Cardinality({i \in 1..Len(events) :
                /\ events[i].EventName = name
                /\ needKiller => KillerOf(events[i]) # <<>>
                /\ teamOf(nameToTeam, KillerOf(events[i])) = myTeam})
        theirs(name, needKiller) ==
            Cardinality({i \in 1..Len(events) :
                /\ events[i].EventName = name
                /\ needKiller => KillerOf(events[i]) # <<>>
                /\ teamOf(nameToTeam, KillerOf(events[i])) # myTeam
                /\ enemyTeam # Null
                /\ teamOf(nameToTeam, KillerOf(events[i])) = enemyTeam[1]})
    IN [myTeam |-> myTeam, enemyTeam |-> enemyTeam,
        kills |-> mine("ChampionKill", TRUE),
        enemyKills |-> theirs("ChampionKill", TRUE),
        turrets |-> [myTeam |-> mine("TurretKilled", FALSE),
                     enemyTeam |-> theirs("TurretKilled", FALSE)],
        inhibs |-> [myTeam |-> mine("InhibKilled", FALSE),
                    enemyTeam |-> theirs("InhibKilled", FALSE)]]

\* Number((n / minutes).toFixed(2)) in hundredths, minutes =
\* Math.max(1 / 60, gameTime / 60); Null for NaN
perMin(n, gameTime) ==
    IF gameTime = <<>> THEN Null
    ELSE IF gameTime[1] < 1 THEN <<n * 6000>>
    ELSE <<(2 * n * 6000 + gameTime[1]) \div (2 * gameTime[1])>>

(* Asset enrichment.  catalog is what the three Data Dragon calls give     *)
(* this cycle: version is Null when getLatestVersion rejects, and an index *)
(* is the empty map when it cannot be had.                                 *)

Letters == {"A", "B", "E", "K", "N", "S", "a", "i", "n", "o", "s"}

\* championName.replace(/\s|[^A-Za-z]/g, "")
lettersOnly(str) == SelectSeq(str, LAMBDA ch : ch \in Letters)

buildChampionSquareUrl(version, championId) ==
    [cdn |-> "img/champion", version |-> version, id |-> championId]

buildItemIconUrl(version, itemId) ==
    [cdn |-> "img/item", version |-> version, id |-> itemId]

buildRuneIconUrl(iconPath) == [cdn |-> "img", path |-> iconPath]

RECURSIVE itemIconUrlsOf(_, _, _)
itemIconUrlsOf(myItems, version, urls) ==
    IF myItems = <<>> THEN urls
    ELSE LET item == Head(myItems)
             slot == slotOf(item)
         IN itemIconUrlsOf(Tail(myItems), version,
                IF slot >= 0 /\ slot <= 6 /\ item.itemID # 0
                THEN [urls EXCEPT ![slot + 1] =
                                      buildItemIconUrl(version, item.itemID)]
                ELSE urls)

runeIconOf(runeIndex, id) ==
    IF id # 0 /\ id \in DOMAIN runeIndex /\ runeIndex[id] # ""
    THEN buildRuneIconUrl(runeIndex[id]) ELSE Null

\* me is Null or the matched roster entry
assetsOf(catalog, me, myItems, myRunes) ==
    IF catalog.version = Null THEN Null
    ELSE
    LET version == catalog.version[1]
        championName == IF me = Null THEN <<>> ELSE me.championName
        champId ==
            IF championName \in DOMAIN catalog.champIndex
               /\ catalog.champIndex[championName] # <<>>
            THEN catalog.champIndex[championName]
            ELSE lettersOnly(championName)
    IN [version |-> version,
        championIconUrl |->
            IF champId # <<>> THEN buildChampionSquareUrl(version, champId)
            ELSE Null,
        itemIconUrls |-> itemIconUrlsOf(myItems, version, [i \in 1..7 |-> Null]),
        runeIcons |->
            [keystone |-> runeIconOf(catalog.runeIndex, IdOf(myRunes, "keystone")),
             primaryTree |->
                 runeIconOf(catalog.runeIndex, IdOf(myRunes, "primaryRuneTree")),
             secondaryTree |->
                 runeIconOf(catalog.runeIndex, IdOf(myRunes, "secondaryRuneTree"))]]

\* x && x.__usedId: the property is written on the object fetchWithRiotIdFallback
\* returned, and read from the data that object carried
usedIdProp(x) ==
    IF x # Null /\ "__usedId" \in DOMAIN x THEN x["__usedId"] ELSE Null

\* the same read on myItems, an array built from the body: it has no such
\* property
usedIdOfArray(arr) == Null

\* the first team of the roster, in roster order, that is set and is not mine
enemyTeamOf(players, myTeam) ==
    LET others == SelectSeq(players, LAMBDA p : p.team # "" /\ p.team # myTeam)
    IN IF others = <<>> THEN Null ELSE <<others[1].team>>

\* the snapshot, from what the fetches resolved with: coreData holds gameStats,
\* events, activePlayerName and playersRaw, details holds myScores, mySpells,
\* myRunes and myAbilities, each a body or Null, and the array myItems
buildSnapshot(coreData, details, catalog) ==
    LET gameStats == coreData.gameStats
        events == coreData.events
        activePlayerName == coreData.activePlayerName
        playersRaw == coreData.playersRaw
        myScores == details.myScores
        myItems == details.myItems
        mySpells == details.mySpells
        myRunes == details.myRunes
        myAbilities == details.myAbilities
        players == IF playersRaw.isArray THEN playersRaw.list ELSE <<>>
        ap == activeIdentity(activePlayerName)
        me == resolveMe(ap, players)
        resolvedRiotId ==
            Or(usedIdOfArray(myItems), Or(usedIdProp(myScores), usedIdProp(mySpells)))
        myTeam == IF me = Null THEN "" ELSE me.team
        enemyTeam == enemyTeamOf(players, myTeam)
    IN [error |-> FALSE,
        game |-> [mode |-> gameStats.gameMode,
                  modeName |-> resolveGameModeName(gameStats.gameMode),
                  time |-> gameStats.gameTime],
        player |-> [name |-> Or(ap.apFullRiotId, Or(ap.apString, ap.apGameName)),
                    riotId |-> resolvedRiotId,
                    champion |-> IF me = Null THEN <<>> ELSE me.championName,
                    team |-> myTeam,
                    level |-> IF me = Null THEN 0 ELSE me.level],
        runes |-> [keystone |-> NameOr(myRunes, "keystone", ""),
                   primaryTree |-> NameOr(myRunes, "primaryRuneTree", ""),
                   secondaryTree |-> NameOr(myRunes, "secondaryRuneTree", "")],
        stats |-> [kills |-> NumOr0(myScores, "kills"),
                   deaths |-> NumOr0(myScores, "deaths"),
                   assists |-> NumOr0(myScores, "assists"),
                   cs |-> NumOr0(myScores, "creepScore"),
                   vision |-> NumOr0(myScores, "wardScore")],
        derived |-> [kda |-> ToString(NumOr0(myScores, "kills")) \o "/"
                             \o ToString(NumOr0(myScores, "deaths")) \o "/"
                             \o ToString(NumOr0(myScores, "assists")),
                     csPerMin |->
                         perMin(NumOr0(myScores, "creepScore"), gameStats.gameTime),
                     visionPerMin |->
                         perMin(NumOr0(myScores, "wardScore"), gameStats.gameTime)],
        team |-> tally(events, nameToTeamOf(players, EmptyMap), myTeam, enemyTeam),
        items |-> itemsBySlotOf(myItems),
        spells |-> [d |-> NameOr(mySpells, "summonerSpellOne", ""),
                    f |-> NameOr(mySpells, "summonerSpellTwo", "")],
        abilities |-> [q |-> abilityOf(myAbilities, "Q"),
                       w |-> abilityOf(myAbilities, "W"),
                       e |-> abilityOf(myAbilities, "E"),
                       r |-> abilityOf(myAbilities, "R")],
        objectives |-> computeObjectiveTimers(gameStats.gameTime, events),
        assets |-> assetsOf(catalog, me, myItems, myRunes),
        raw |-> [gameStats |-> gameStats, events |-> events]]

(* What the upstream serves *)

An == <<"A", "n">>
Bo == <<"B", "o">>
TagE == <<"E">>
TagN == <<"N">>
KaiSa == <<"K", "a", "i", "'", "S", "a">>

Player(gameName, tagLine, riotId, summonerName, team, championName, level) ==
    [riotIdGameName |-> gameName, riotIdTagLine |-> tagLine, riotId |-> riotId,
     summonerName |-> summonerName, team |-> team,
     championName |-> championName, level |-> level]

Ann == Player(An, TagE, An \o Hash \o TagE, An, "ORDER", KaiSa, 7)
Bob == Player(Bo, TagN, Bo \o Hash \o TagN, Bo, "CHAOS", Bo, 6)
LegacyAnn == Player(<<>>, <<>>, <<>>, An, "ORDER", KaiSa, 7)

Kill(name, t, killer) == [EventName |-> name, EventTime |-> t, KillerName |-> killer]

Item(slot, displayName, itemID) ==
    [slot |-> slot, displayName |-> displayName, itemID |-> itemID]

Named(displayName, id) == <<[displayName |-> displayName, id |-> id]>>

Ok(fields) == [httpStatus |-> 200] @@ fields

\* the bodies of a match in progress; identity is the body of activeplayername
\* and roster the player list
Match(identity, roster, gameTime) ==
    [loading |-> FALSE,
     gamestats |-> Ok([gameMode |-> "CLASSIC", gameTime |-> <<gameTime>>]),
     eventdata |-> Ok([Events |-> << Kill("ChampionKill", 200, An),
                                     Kill("ChampionKill", 260, Bo),
                                     Kill("TurretKilled", 480, Bo),
                                     DragonKill(500) >>]),
     activeplayername |-> Ok(identity),
     playerlist |-> Ok([isArray |-> TRUE, list |-> roster]),
     activeplayer |-> Ok([level |-> 7]),
     activeplayerabilities |->
         Ok([Q |-> Named("Icathian Rain", 1), W |-> Named("Void Seeker", 2),
             E |-> Named("", 3), R |-> <<>>]),
     playerscores |->
         Ok([kills |-> <<3>>, deaths |-> <<1>>, assists |-> <<4>>,
             creepScore |-> <<95>>, wardScore |-> <<12>>]),
     playeritems |->
         Ok([isArray |-> TRUE, data |-> <<>>,
             list |-> << Item(<<6>>, "Stealth Ward", 3340),
                         Item(<<0>>, "Doran's Blade", 1055) >>]),
     playersummonerspells |->
         Ok([summonerSpellOne |-> Named("Flash", 4),
             summonerSpellTwo |-> Named("Heal", 7)]),
     playermainrunes |->
         Ok([keystone |-> Named("Conqueror", 8010),
             primaryRuneTree |-> Named("Precision", 8000),
             secondaryRuneTree |-> Named("Resolve", 8400)])]

StringIdentity(str) ==
    [isString |-> TRUE, str |-> str,
     riotId |-> <<>>, riotIdGameName |-> <<>>, riotIdTagLine |-> <<>>]

\* a match with Riot IDs, a match with legacy names, an empty lobby, and the
\* loading screen, where every endpoint answers 404
Worlds ==
    { Match(StringIdentity(An \o Hash \o TagE), <<Bob, Ann>>, 700),
      Match(StringIdentity(An), <<Bob, LegacyAnn>>, 700),
      Match(StringIdentity(<<>>), <<>>, 0),
      [Match(StringIdentity(An), <<Ann>>, 0) EXCEPT !.loading = TRUE] }

ChampionNameToId == [n \in {KaiSa} |-> <<"K", "a", "i", "s", "a">>]

RuneIdToIcon ==
    [id \in {8010, 8000} |->
        IF id = 8010 THEN "Precision/Conqueror.png" ELSE "7201_Precision.png"]

Catalogs ==
    {[version |-> Null, champIndex |-> EmptyMap, runeIndex |-> EmptyMap]}
    \cup {[version |-> <<"15.1.1">>, champIndex |-> c, runeIndex |-> r] :
            c \in {EmptyMap, ChampionNameToId}, r \in {EmptyMap, RuneIdToIcon}}

(* The module state of datadragon.ts (lines 5-8) and the three lookups.     *)
(* A cache is [cachedVersion, lastVersionFetchAt, championNameToId,         *)
(* runeIdToIcon], an entry being <<>> for null and <<value>> otherwise; a   *)
(* lookup gives the cache it leaves, its value (<<>> when it rejected) and  *)
(* the remote calls it made.  failed holds the remote calls that fail.      *)

HourMs == 60 * 60 * 1000

StaticCalls == {"versions", "champion", "runes"}

ColdCache ==
    [cachedVersion |-> <<>>, lastVersionFetchAt |-> 0,
     championNameToId |-> <<>>, runeIdToIcon |-> <<>>]

Lookup(cache, value, calls) == [cache |-> cache, value |-> value, calls |-> calls]

\* cachedVersion && now - lastVersionFetchAt < 60 * 60 * 1000
versionCached(cache, now) ==
    cache.cachedVersion # <<>> /\ now - cache.lastVersionFetchAt < HourMs

getLatestVersion(cache, now, failed) ==
    IF versionCached(cache, now) THEN Lookup(cache, cache.cachedVersion, {})
    ELSE IF "versions" \in failed THEN Lookup(cache, <<>>, {"versions"})
    ELSE Lookup([cache EXCEPT !.cachedVersion = <<"15.1.1">>, !.lastVersionFetchAt = now],
                <<"15.1.1">>, {"versions"})

ensureChampionIndex(cache, now, failed) ==
    IF cache.championNameToId # <<>> THEN Lookup(cache, cache.championNameToId, {})
    ELSE LET v == getLatestVersion(cache, now, failed)
         IN IF v.value = <<>> THEN v
            ELSE IF "champion" \in failed THEN Lookup(v.cache, <<>>, v.calls \cup {"champion"})
            ELSE Lookup([v.cache EXCEPT !.championNameToId = <<ChampionNameToId>>],
                        <<ChampionNameToId>>, v.calls \cup {"champion"})

\* a failure leaves an empty index in the cache and returns it
ensureRunesIndex(cache, now, failed) ==
    IF cache.runeIdToIcon # <<>> THEN Lookup(cache, cache.runeIdToIcon, {})
    ELSE LET v == getLatestVersion(cache, now, failed)
         IN IF v.value = <<>> \/ "runes" \in failed
            THEN Lookup([v.cache EXCEPT !.runeIdToIcon = <<EmptyMap>>], <<EmptyMap>>,
                        v.calls \cup (IF v.value = <<>> THEN {} ELSE {"runes"}))
            ELSE Lookup([v.cache EXCEPT !.runeIdToIcon = <<RuneIdToIcon>>],
                        <<RuneIdToIcon>>, v.calls \cup {"runes"})

\* the lookups of the assets stage of getAggregatedSnapshot (part_001 471-545):
\* the version, and with a version the champion index (an empty one when the
\* lookup rejects) and the rune index
assetLookups(cache, now, failed) ==
    LET v == getLatestVersion(cache, now, failed)
    IN IF v.value = <<>>
       THEN [cache |-> v.cache, calls |-> v.calls, looked |-> {"versions"},
             catalog |-> [version |-> Null, champIndex |-> EmptyMap, runeIndex |-> EmptyMap]]
       ELSE LET c == ensureChampionIndex(v.cache, now, failed)
                r == ensureRunesIndex(c.cache, now, failed)
            IN [cache |-> r.cache, calls |-> v.calls \cup c.calls \cup r.calls,
                looked |-> StaticCalls,
                catalog |-> [version |-> v.value,
                             champIndex |-> IF c.value = <<>> THEN EmptyMap ELSE c.value[1],
                             runeIndex |-> r.value[1]]]

(* One call of getAggregatedSnapshot as a process.  A request is answered  *)
(* "ok" (200 and the dataset), "non200" (an error status and the error     *)
(* object as JSON) or "reject" (no connection, or a body that is not       *)
(* JSON); only the last makes getJson reject.                              *)

CoreEndpoints == {"gamestats", "eventdata", "activeplayername", "playerlist"}
OptionalEndpoints == {"activeplayer", "activeplayerabilities"}
KeyedEndpoints ==
    {"playerscores", "playeritems", "playersummonerspells", "playermainrunes"}

\* the answers a request can get: on the loading screen no endpoint has its
\* dataset yet; in a match the core datasets exist, while a keyed or optional
\* endpoint may still refuse a request
CoreAnswers(w) == IF w.loading THEN {"non200", "reject"} ELSE {"ok", "reject"}

Answers(w) == IF w.loading THEN {"non200", "reject"} ELSE {"ok", "non200", "reject"}

\* what getJson resolved with
bodyOf(w, endpoint, answer) == IF answer = "ok" THEN w[endpoint] ELSE NotFound

\* Promise.all over the core fetches
afterCore(c) ==
    IF \E e \in CoreEndpoints : c[e] = "reject" THEN "failed"
    ELSE IF \A e \in CoreEndpoints : c[e] # "pending" THEN "details"
    ELSE "core"

\* riotIdCandidates of the call, from the core bodies
candidatesOf(w, c) ==
    LET playersRaw == bodyOf(w, "playerlist", c["playerlist"])
        players == IF playersRaw.isArray THEN playersRaw.list ELSE <<>>
        ap == activeIdentity(bodyOf(w, "activeplayername", c["activeplayername"]))
    IN riotIdCandidates(ap, resolveMe(ap, players))

\* fetchWithRiotIdFallback: the log of its requests, [id, res] in the order
\* made.  It starts by requesting the first candidate, if there is one,
loopStart(cands) ==
    IF cands = <<>> THEN <<>> ELSE <<[id |-> cands[1], res |-> "pending"]>>

\* goes on to the next candidate when getJson rejects, and returns otherwise,
loopStep(log, cands, answer) ==
    LET settled == [log EXCEPT ![Len(log)].res = answer]
    IN IF answer = "reject" /\ Len(log) < Len(cands)
       THEN Append(settled, [id |-> cands[Len(log) + 1], res |-> "pending"])
       ELSE settled

loopPending(log) == log # <<>> /\ log[Len(log)].res = "pending"

\* with the data getJson resolved with, or nulls when the candidates ran out.
loopResult(w, endpoint, log) ==
    IF log # <<>> /\ log[Len(log)].res \in {"ok", "non200"}
    THEN [data |-> bodyOf(w, endpoint, log[Len(log)].res),
          usedId |-> <<log[Len(log)].id>>]
    ELSE [data |-> Null, usedId |-> Null]

\* getJson(...).catch(() => null)
optionalResult(w, endpoint, answer) ==
    IF answer = "reject" THEN Null ELSE bodyOf(w, endpoint, answer)

\* what the four core fetches resolved with; eventdata's is d.Events || []
coreDataOf(w, c) ==
    [gameStats |-> bodyOf(w, "gamestats", c["gamestats"]),
     events |-> bodyOf(w, "eventdata", c["eventdata"]).Events,
     activePlayerName |-> bodyOf(w, "activeplayername", c["activeplayername"]),
     playersRaw |-> bodyOf(w, "playerlist", c["playerlist"])]

AggInit ==
    /\ world \in Worlds
    /\ aggPc = "core"
    /\ core = [e \in CoreEndpoints |-> "pending"]
    /\ opt = [e \in OptionalEndpoints |-> "idle"]
    /\ loops = [e \in KeyedEndpoints |-> <<>>]
    /\ ddragon = <<>>
    /\ result = <<>>

CoreResponds ==
    \E e \in CoreEndpoints, answer \in CoreAnswers(world) :
        /\ aggPc = "core"
        /\ core[e] = "pending"
        /\ \E c \in {[core EXCEPT ![e] = answer]} :
            /\ core' = c
            /\ aggPc' = afterCore(c)
            /\ IF afterCore(c) = "details"
               THEN /\ opt' = [o \in OptionalEndpoints |-> "pending"]
                    /\ \E cands \in {candidatesOf(world, c)} :
                          loops' = [k \in KeyedEndpoints |-> loopStart(cands)]
               ELSE UNCHANGED <<opt, loops>>
        /\ UNCHANGED <<world, ddragon, result, tipsVars, loadVars, pollVars, callVars, uiVars>>

OptionalResponds ==
    \E e \in OptionalEndpoints, answer \in Answers(world) :
        /\ aggPc = "details"
        /\ opt[e] = "pending"
        /\ opt' = [opt EXCEPT ![e] = answer]
        /\ UNCHANGED <<world, aggPc, core, loops, ddragon, result,
                       tipsVars, loadVars, pollVars, callVars, uiVars>>

KeyedResponds ==
    \E e \in KeyedEndpoints, answer \in Answers(world) :
        /\ aggPc = "details"
        /\ loopPending(loops[e])
        /\ loops' = [loops EXCEPT
                        ![e] = loopStep(@, candidatesOf(world, core), answer)]
        /\ UNCHANGED <<world, aggPc, core, opt, ddragon, result,
                       tipsVars, loadVars, pollVars, callVars, uiVars>>

\* the snapshot getAggregatedSnapshot returns from what the fetches of this call
\* resolved with and the catalog the assets stage obtained
snapshotFor(catalog) ==
    buildSnapshot(
        coreDataOf(world, core),
        [myScores |->
             loopResult(world, "playerscores", loops["playerscores"]).data,
         myItems |->
             unwrapItems(
                 loopResult(world, "playeritems", loops["playeritems"]).data),
         mySpells |->
             loopResult(world, "playersummonerspells",
                        loops["playersummonerspells"]).data,
         myRunes |->
             loopResult(world, "playermainrunes",
                        loops["playermainrunes"]).data,
         myAbilities |->
             optionalResult(world, "activeplayerabilities",
                            opt["activeplayerabilities"])],
        catalog)

Returns ==
    /\ aggPc = "details"
    /\ \A e \in OptionalEndpoints : opt[e] # "pending"
    /\ \A e \in KeyedEndpoints : ~loopPending(loops[e])
    /\ \E failed \in SUBSET StaticCalls, catalog \in Catalogs :
        /\ catalog = assetLookups(ColdCache, EpochMs, failed).catalog
        /\ ddragon' = catalog @@ [failed |-> failed]
        /\ result' = snapshotFor(catalog)
    /\ aggPc' = "returned"
    /\ UNCHANGED <<world, core, opt, loops, tipsVars, loadVars, pollVars, callVars, uiVars>>

SpecAggInit == AggInit /\ TipsIdle /\ LoadIdle /\ PollIdle /\ CallIdle /\ UiIdle

SpecAggNext == CoreResponds \/ OptionalResponds \/ KeyedResponds \/ Returns

SpecAgg == SpecAggInit /\ [][SpecAggNext]_vars

(* What the claims about the aggregator speak of *)

\* a fetch fails when it does not bring its dataset: no connection, a body
\* that is not JSON, or a status other than 200
Failed(answer) == answer \in {"non200", "reject"}

CoreFetchFailed == \E e \in CoreEndpoints : Failed(core[e])

\* the dataset of an optional endpoint was fetched
Obtained(e) ==
    IF e \in KeyedEndpoints
    THEN \E i \in 1..Len(loops[e]) : loops[e][i].res = "ok"
    ELSE opt[e] = "ok"

\* the snapshot of this call had every / no optional dataset been fetched
SnapshotWith(all) ==
    buildSnapshot(
        coreDataOf(world, core),
        [myScores |-> IF all THEN world["playerscores"] ELSE Null,
         myItems |-> IF all THEN unwrapItems(world["playeritems"]) ELSE <<>>,
         mySpells |-> IF all THEN world["playersummonerspells"] ELSE Null,
         myRunes |-> IF all THEN world["playermainrunes"] ELSE Null,
         myAbilities |-> IF all THEN world["activeplayerabilities"] ELSE Null],
        ddragon)

\* the optional dataset that feeds a snapshot field
FedBy ==
    [stats |-> "playerscores", derived |-> "playerscores",
     items |-> "playeritems", spells |-> "playersummonerspells",
     runes |-> "playermainrunes", abilities |-> "activeplayerabilities"]

CoreFields == {"error", "game", "player", "team", "objectives", "raw"}

\* a field fed by a dataset that was not fetched has its default, every other
\* field is what it is when everything is fetched
DegradedPerField(snap) ==
    /\ \A f \in CoreFields : snap[f] = SnapshotWith(TRUE)[f]
    /\ \A f \in DOMAIN FedBy : snap[f] = SnapshotWith(Obtained(FedBy[f]))[f]
    /\ (snap.assets = Null) = (ddragon.version = Null)
    /\ snap.assets # Null =>
        /\ snap.assets.version = SnapshotWith(TRUE).assets.version
        /\ snap.assets.championIconUrl = SnapshotWith(TRUE).assets.championIconUrl
        /\ snap.assets.itemIconUrls
             = SnapshotWith(Obtained("playeritems")).assets.itemIconUrls
        /\ snap.assets.runeIcons
             = SnapshotWith(Obtained("playermainrunes")).assets.runeIcons

\* C9: getAggregatedSnapshot fails exactly when one of the four core fetches
\* fails; otherwise it returns a snapshot with error = false in which the
\* fields fed by a failed optional fetch have their defaults and all other
\* fields are unaffected.
C9_FailsIffCoreFetchFails ==
    /\ aggPc = "failed" => CoreFetchFailed
    /\ aggPc \in {"details", "returned"} => ~CoreFetchFailed
    /\ aggPc = "returned" => result.error = FALSE /\ DegradedPerField(result)

\* C10: for each identity-keyed endpoint the candidates are requested in list
\* order, the next one only after the one before failed; the result is the
\* data of the first candidate whose request succeeds, and null, without an
\* error, when every candidate failed.
C10_FirstSuccessfulCandidateWins ==
    aggPc \in {"details", "returned"} =>
        \A e \in KeyedEndpoints :
            LET cands == candidatesOf(world, core)
                log == loops[e]
                res == loopResult(world, e, log)
            IN /\ Len(log) <= Len(cands)
               /\ \A i \in 1..Len(log) : log[i].id = cands[i]
               /\ \A i \in 1..(Len(log) - 1) : Failed(log[i].res)
               /\ ~loopPending(log) =>
                    IF Obtained(e)
                    THEN /\ res.data = world[e]
                         /\ res.usedId = <<log[Len(log)].id>>
                    ELSE /\ Len(log) = Len(cands)
                         /\ res.data = Null
                         /\ res.usedId = Null

\* the candidate a keyed fetch got its dataset with, Null when it got none
workedWith(e) ==
    IF Obtained(e) THEN loops[e][Len(loops[e])].id ELSE Null

\* what the detail fetches of a settled call resolved with
detailsOf(w, l, o) ==
    [myScores |-> loopResult(w, "playerscores", l["playerscores"]).data,
     myItems |-> loopResult(w, "playeritems", l["playeritems"]).data,
     mySpells |->
         loopResult(w, "playersummonerspells", l["playersummonerspells"]).data,
     myRunes |-> loopResult(w, "playermainrunes", l["playermainrunes"]).data,
     myAbilities |->
         optionalResult(w, "activeplayerabilities", o["activeplayerabilities"])]

\* C11: a non-200 answer counts as a transport error: a core dataset answered
\* non-200 fails the cycle, a keyed candidate answered non-200 is passed over
\* for the next one, and the body of a non-200 answer is never taken as data.
C11_Non200IsTransportError ==
    aggPc \in {"details", "returned"} =>
        /\ \A e \in CoreEndpoints : core[e] # "non200"
        /\ \A e \in KeyedEndpoints :
             \A i \in 1..Len(loops[e]) :
                 loops[e][i].res = "non200" =>
                     i < Len(loops[e]) \/ i = Len(candidatesOf(world, core))
        /\ (\A e \in KeyedEndpoints : ~loopPending(loops[e])) =>
             \A f \in DOMAIN detailsOf(world, loops, opt) :
                 detailsOf(world, loops, opt)[f] # NotFound

\* C12: the snapshot's player.riotId is the candidate that worked, the one of
\* the items fetch first, then of scores, then of spells; it is null only
\* when none of the three got its dataset.
C12_RecordsCandidateThatWorked ==
    aggPc = "returned" =>
        result.player.riotId =
            Or(workedWith("playeritems"),
               Or(workedWith("playerscores"), workedWith("playersummonerspells")))

----------------------------------------------------------------------------
(* computeObjectiveTimers over the course of a match: the game clock       *)
(* advances, and an objective that is up is killed, which appends a kill   *)
(* event with the game time of the kill to the event log.                  *)

Objectives == {"dragon", "herald", "baron"}

KillName == [dragon |-> "DragonKill", herald |-> "HeraldKill", baron |-> "BaronKill"]

TimerTimes == {0, 299, 300, 480, 700, 841, 1185, 1200, 1300, 1600}

\* the kill events the upstream logs for an objective killed at t
KillEvents(obj, t) ==
    IF obj = "dragon"
    THEN {DragonKill(t),
          [EventName |-> "DragonKill", EventTime |-> t, DragonType |-> "Earth"]}
    ELSE {[EventName |-> KillName[obj], EventTime |-> t]}

\* the objective is on the map: its spawn time has come, and the herald has
\* not yet left
IsUp(obj) ==
    /\ callArgs.gameTimeSec >= callOut[obj].nextSpawnTime
    /\ obj = "herald" => callArgs.gameTimeSec < callOut.herald.despawnsAt

TimersInit ==
    /\ \E t \in TimerTimes : callArgs = [gameTimeSec |-> t, events |-> <<>>]
    /\ callOut = computeObjectiveTimers(<<callArgs.gameTimeSec>>, callArgs.events)
    /\ callPrev = <<>>

ClockAdvances ==
    \E t \in TimerTimes :
        /\ t > callArgs.gameTimeSec
        /\ callArgs' = [callArgs EXCEPT !.gameTimeSec = t]
        /\ callOut' = computeObjectiveTimers(<<t>>, callArgs.events)
        /\ callPrev' = [args |-> callArgs, out |-> callOut, step |-> "advance"]
        /\ UNCHANGED <<tipsVars, loadVars, pollVars, aggVars, uiVars>>

ObjectiveKilled ==
    \E obj \in Objectives :
        /\ Len(callArgs.events) < MaxKills
        /\ IsUp(obj)
        /\ \E ev \in KillEvents(obj, callArgs.gameTimeSec) :
            /\ callArgs' = [callArgs EXCEPT !.events = Append(@, ev)]
            /\ callOut' = computeObjectiveTimers(<<callArgs.gameTimeSec>>,
                                                 Append(callArgs.events, ev))
        /\ callPrev' = [args |-> callArgs, out |-> callOut, step |-> obj]
        /\ UNCHANGED <<tipsVars, loadVars, pollVars, aggVars, uiVars>>

SpecTimersInit == TimersInit /\ TipsIdle /\ LoadIdle /\ PollIdle /\ AggIdle /\ UiIdle

SpecTimersNext == ClockAdvances \/ ObjectiveKilled

SpecTimers == SpecTimersInit /\ [][SpecTimersNext]_vars

HasKill(events, obj) == \E i \in 1..Len(events) : events[i].EventName = KillName[obj]

\* C13 as stated: at 1185 with no dragon and no baron kill the dragon is due
\* at 1200, in "0:15".
C13_Original ==
    (callArgs.gameTimeSec = 1185
        /\ ~HasKill(callArgs.events, "dragon") /\ ~HasKill(callArgs.events, "baron"))
    => /\ callOut.dragon.nextSpawnTime = 1200
       /\ callOut.dragon.timeToSpawn = "0:15"

\* C13: at game time 1185 with no dragon and no baron kill in the log, it is
\* the baron that is due at 1200, in "0:15"; the dragon's next spawn time is
\* its first spawn, 300, which is "-14:45" away.
C13_BaronDueNotDragon ==
    (callArgs.gameTimeSec = 1185
        /\ ~HasKill(callArgs.events, "dragon") /\ ~HasKill(callArgs.events, "baron"))
    => /\ callOut.dragon.nextSpawnTime = 300
       /\ callOut.dragon.timeToSpawn = "-14:45"
       /\ callOut.baron.nextSpawnTime = 1200
       /\ callOut.baron.timeToSpawn = "0:15"

C13_Witness ==
    /\ callPrev # <<>>
    /\ callArgs.gameTimeSec = 1185
    /\ ~HasKill(callArgs.events, "dragon") /\ ~HasKill(callArgs.events, "baron")
    /\ callOut.baron.timeToSpawn = "0:15"

\* first-spawn times and respawn cadences as the claims give them
FirstSpawn == [dragon |-> 300, herald |-> 480, baron |-> 1200]
Cadence == [dragon |-> 300, herald |-> 360, baron |-> 360]

KillIndexes(events, obj) ==
    {i \in 1..Len(events) : events[i].EventName = KillName[obj]}

\* EventTime of the last kill event of the objective in log order
LastKillTime(events, obj) ==
    events[CHOOSE i \in KillIndexes(events, obj) :
               \A j \in KillIndexes(events, obj) : j <= i].EventTime

\* first spawn before it has come, else last kill plus cadence, else the first
\* spawn again
NextSpawnRule(obj, now, events) ==
    IF now < FirstSpawn[obj] THEN FirstSpawn[obj]
    ELSE IF HasKill(events, obj) THEN LastKillTime(events, obj) + Cadence[obj]
    ELSE FirstSpawn[obj]

\* C14 as stated: every objective follows the rule, the herald included.
C14_Original ==
    \A obj \in Objectives :
        callOut[obj].nextSpawnTime
            = NextSpawnRule(obj, callArgs.gameTimeSec, callArgs.events)

\* C14: dragon and baron follow the rule (first spawn, else last kill in log
\* order plus cadence, else first spawn); the herald follows it capped at
\* 1200, once its first spawn has come.
C14_RuleWithHeraldCap ==
    \A obj \in Objectives :
        callOut[obj].nextSpawnTime
            = IF obj = "herald" /\ callArgs.gameTimeSec >= FirstSpawn[obj]
              THEN Min(1200, NextSpawnRule(obj, callArgs.gameTimeSec, callArgs.events))
              ELSE NextSpawnRule(obj, callArgs.gameTimeSec, callArgs.events)

C14_Witness ==
    /\ Cardinality(KillIndexes(callArgs.events, "dragon")) = 2
    /\ callArgs.events[1].EventTime < LastKillTime(callArgs.events, "dragon")
    /\ callOut.dragon.nextSpawnTime = LastKillTime(callArgs.events, "dragon") + 300
    /\ callArgs.gameTimeSec < callOut.baron.nextSpawnTime

\* the latest step was the clock advancing over an unchanged log
Advanced == callPrev # <<>> /\ callPrev.step = "advance"

\* the latest step was a kill of obj being logged
KillLogged(obj) == callPrev # <<>> /\ callPrev.step = obj

NonDecreasing ==
    Advanced =>
        \A obj \in Objectives :
            callOut[obj].nextSpawnTime >= callPrev.out[obj].nextSpawnTime

\* C15 as stated: non-decreasing while the clock advances, and one cadence
\* further right after a kill of the objective is logged.
C15_Original ==
    /\ NonDecreasing
    /\ \A obj \in Objectives :
         KillLogged(obj) =>
             callOut[obj].nextSpawnTime
                 = callPrev.out[obj].nextSpawnTime + Cadence[obj]

\* C15: for a fixed event log nextSpawnTime does not decrease while the clock
\* advances; when a kill of an objective that is up is logged, its
\* nextSpawnTime becomes the kill's EventTime plus one cadence (for the herald
\* at most 1200), which is not before the former value, and the other
\* objectives keep theirs.
C15_JumpsToKillPlusCadence ==
    /\ NonDecreasing
    /\ \A obj \in Objectives :
         KillLogged(obj) =>
             /\ callOut[obj].nextSpawnTime
                  = IF obj = "herald"
                    THEN Min(1200, callArgs.gameTimeSec + Cadence[obj])
                    ELSE callArgs.gameTimeSec + Cadence[obj]
             /\ callOut[obj].nextSpawnTime >= callPrev.out[obj].nextSpawnTime
             /\ \A other \in Objectives \ {obj} :
                    callOut[other].nextSpawnTime
                        = callPrev.out[other].nextSpawnTime

C15_Witness ==
    /\ KillLogged("herald")
    /\ callPrev.out.herald.nextSpawnTime < callOut.herald.nextSpawnTime
    /\ callOut.herald.nextSpawnTime < callArgs.gameTimeSec + 360
    /\ HasKill(callArgs.events, "dragon")

(***************************************************************************)
(* The event tally of getAggregatedSnapshot as a function of the roster,   *)
(* the resolved local player and the event log (part_001 419-459).         *)
(***************************************************************************)
MaxEvents == 3

\* a roster entry with no team
Solo == Player(An, TagE, An \o Hash \o TagE, An, "", KaiSa, 7)

\* a killer the roster does not list
Minion == <<"M", "i">>

TallyRosters == {<<>>, <<Bob, Ann>>, <<Ann>>, <<Solo, Bob>>}

TallyEventNames == {"ChampionKill", "TurretKilled", "InhibKilled"}

Killers == {An, Bo, Minion}

\* me?.team || ""
myTeamOf(me) == IF me = Null THEN "" ELSE me.team

\* the team block of the snapshot for a roster, the entry resolved as the
\* local player (Null when none) and an event log
teamBlock(players, me, events) ==
    tally(events, nameToTeamOf(players, EmptyMap), myTeamOf(me), enemyTeamOf(players, myTeamOf(me)))

TallyInit ==
    /\ \E players \in TallyRosters : \E me \in {Null} \union Range(players) :
           callArgs = [players |-> players, me |-> me, events |-> <<>>]
    /\ callOut = teamBlock(callArgs.players, callArgs.me, callArgs.events)
    /\ callPrev = <<>>

TallyLogged(ev, step) ==
    /\ Len(callArgs.events) < MaxEvents
    /\ callArgs' = [callArgs EXCEPT !.events = Append(@, ev)]
    /\ callOut' = teamBlock(callArgs.players, callArgs.me, Append(callArgs.events, ev))
    /\ callPrev' = [args |-> callArgs, out |-> callOut, step |-> step]
    /\ UNCHANGED <<tipsVars, loadVars, pollVars, aggVars, uiVars>>

\* the upstream logs an event that names its killer
NamedEventLogged ==
    \E name \in TallyEventNames : \E killer \in Killers :
        TallyLogged(Kill(name, 60 * (Len(callArgs.events) + 1), killer), "named")

\* the upstream logs an event with no KillerName
AnonymousEventLogged ==
    \E name \in TallyEventNames :
        TallyLogged([EventName |-> name, EventTime |-> 60 * (Len(callArgs.events) + 1)], "anonymous")

SpecTallyInit == TallyInit /\ TipsIdle /\ LoadIdle /\ PollIdle /\ AggIdle /\ UiIdle

SpecTallyNext == NamedEventLogged \/ AnonymousEventLogged

SpecTally == SpecTallyInit /\ [][SpecTallyNext]_vars

\* the events of a kind that name a killer the roster maps to team
CreditedTo(args, name, team) ==
    LET nameToTeam == nameToTeamOf(args.players, EmptyMap)
    IN Cardinality({i \in 1..Len(args.events) :
           /\ args.events[i].EventName = name
           /\ KillerOf(args.events[i]) # <<>>
           /\ KillerOf(args.events[i]) \in DOMAIN nameToTeam
           /\ nameToTeam[KillerOf(args.events[i])] = team})

CreditedToEnemy(args, name) ==
    IF callOut.enemyTeam = Null THEN 0 ELSE CreditedTo(args, name, callOut.enemyTeam[1])

\* C16: a TurretKilled or InhibKilled event with no killer name counts for
\* neither team, for every roster and every resolved local player (none
\* included); an event with a killer name counts for the team the roster's
\* name-to-team map gives for that name
C16_StructuresCreditedByKillerName ==
    /\ callOut.turrets.myTeam = CreditedTo(callArgs, "TurretKilled", callOut.myTeam)
    /\ callOut.turrets.enemyTeam = CreditedToEnemy(callArgs, "TurretKilled")
    /\ callOut.inhibs.myTeam = CreditedTo(callArgs, "InhibKilled", callOut.myTeam)
    /\ callOut.inhibs.enemyTeam = CreditedToEnemy(callArgs, "InhibKilled")

\* the same for the rosters in which the local player is resolved and has a team
C16_HoldsWithATeam ==
    callOut.myTeam # "" => C16_StructuresCreditedByKillerName

\* an event with no killer name counted for the local player's team
C16_AnonymousCredited ==
    /\ callPrev # <<>>
    /\ callPrev.step = "anonymous"
    /\ callOut.turrets.myTeam + callOut.inhibs.myTeam
         > callPrev.out.turrets.myTeam + callPrev.out.inhibs.myTeam

(***************************************************************************)
(* Identity resolution as a function of the active identity and the roster *)
(* (part_001 233-310).                                                     *)
(***************************************************************************)
MaxRoster == 3

ObjectIdentity(riotId, gameName, tagLine) ==
    [isString |-> FALSE, str |-> <<>>,
     riotId |-> riotId, riotIdGameName |-> gameName, riotIdTagLine |-> tagLine]

\* the forms the upstream reports the active identity in: composite string,
\* bare string, lower-case composite, composite with a space before the
\* separator, and the structured object
Identities ==
    { StringIdentity(An \o Hash \o TagE),
      StringIdentity(An),
      StringIdentity(<<"a", "n">> \o Hash \o <<"e">>),
      StringIdentity(An \o <<" ">> \o Hash \o TagE),
      ObjectIdentity(<<>>, An, TagE) }

\* roster entries: An#E with and without the composite id, An with another
\* tag, the legacy An, and somebody else
AnnNoId == Player(An, TagE, <<>>, <<>>, "ORDER", KaiSa, 7)
AnnOther == Player(An, TagN, An \o Hash \o TagN, <<>>, "CHAOS", Bo, 5)
RosterEntries == {Ann, AnnNoId, AnnOther, LegacyAnn, Bob}

\* the entry resolved as the local player, Null when the roster is empty
identityOf(activePlayerName, players) == resolveMe(activeIdentity(activePlayerName), players)

IdentityInit ==
    /\ \E id \in Identities : callArgs = [activePlayerName |-> id, players |-> <<>>]
    /\ callOut = identityOf(callArgs.activePlayerName, callArgs.players)
    /\ callPrev = <<>>

\* the roster of the next cycle lists one more player
PlayerListed ==
    \E p \in RosterEntries :
        /\ Len(callArgs.players) < MaxRoster
        /\ callArgs' = [callArgs EXCEPT !.players = Append(@, p)]
        /\ callOut' = identityOf(callArgs.activePlayerName, Append(callArgs.players, p))
        /\ callPrev' = [args |-> callArgs, out |-> callOut, step |-> "listed"]
        /\ UNCHANGED <<tipsVars, loadVars, pollVars, aggVars, uiVars>>

SpecIdentityInit == IdentityInit /\ TipsIdle /\ LoadIdle /\ PollIdle /\ AggIdle /\ UiIdle

SpecIdentityNext == PlayerListed

SpecIdentity == SpecIdentityInit /\ [][SpecIdentityNext]_vars

\* the entry has the name and the tag of the active identity
MatchesNameAndTag(ap, p) ==
    /\ p # Null
    /\ ap.apGameName # <<>>
    /\ ap.apTagLine # <<>>
    /\ normalizeIdString(p.riotIdGameName) = normalizeIdString(ap.apGameName)
    /\ normalizeIdString(p.riotIdTagLine) = normalizeIdString(ap.apTagLine)

\* the entry's full identity is the active identity's
MatchesFullId(ap, p) ==
    /\ ap.apFullRiotId # <<>>
    /\ normalizeIdString(buildFullRiotId(p)) = normalizeIdString(ap.apFullRiotId)

\* C17: for every roster order, when some roster entry matches the active
\* identity on name and tag, the resolved entry matches on name and tag
C17_PrefersNameAndTag ==
    LET ap == activeIdentity(callArgs.activePlayerName)
    IN (\E i \in 1..Len(callArgs.players) : MatchesNameAndTag(ap, callArgs.players[i]))
           => MatchesNameAndTag(ap, callOut)

\* the same when the name+tag entry is also a match of the full identity
C17_HoldsOnFullIdMatch ==
    LET ap == activeIdentity(callArgs.activePlayerName)
    IN (\E i \in 1..Len(callArgs.players) :
            /\ MatchesNameAndTag(ap, callArgs.players[i])
            /\ MatchesFullId(ap, callArgs.players[i]))
           => MatchesNameAndTag(ap, callOut)

\* a name+tag match listed after a name-only match was resolved
C17_LaterNameAndTagResolved ==
    LET ap == activeIdentity(callArgs.activePlayerName)
    IN /\ Len(callArgs.players) >= 2
       /\ ~MatchesNameAndTag(ap, callArgs.players[1])
       /\ normalizeIdString(callArgs.players[1].riotIdGameName) = normalizeIdString(ap.apGameName)
       /\ MatchesNameAndTag(ap, callOut)

(***************************************************************************)
(* The items list of the snapshot as a function of the playeritems body    *)
(* (part_001 357-376 and 599-619).                                         *)
(***************************************************************************)
MaxItems == 3

ItemSlots == {<<>>, <<-1>>, <<0>>, <<6>>, <<7>>}

ItemNames == {"", "Doran's Blade", "Stealth Ward"}

\* the body of playeritems: the array itself, or an object that holds it
ItemForms == {"array", "wrapped"}

itemsBody(form, list) ==
    IF form = "array" THEN [isArray |-> TRUE, list |-> list, data |-> <<>>]
    ELSE [isArray |-> FALSE, list |-> <<>>, data |-> <<list>>]

\* the items field of the snapshot for a playeritems body
itemsField(form, list) == itemsBySlotOf(unwrapItems(itemsBody(form, list)))

ItemsInit ==
    /\ \E form \in ItemForms : callArgs = [form |-> form, list |-> <<>>]
    /\ callOut = itemsField(callArgs.form, callArgs.list)
    /\ callPrev = <<>>

\* the upstream lists one more item
ItemListed ==
    \E slot \in ItemSlots : \E name \in ItemNames :
        /\ Len(callArgs.list) < MaxItems
        /\ callArgs' = [callArgs EXCEPT !.list = Append(@, Item(slot, name, 1000 + Len(@)))]
        /\ callOut' = itemsField(callArgs.form, callArgs'.list)
        /\ callPrev' = [args |-> callArgs, out |-> callOut, step |-> "listed"]
        /\ UNCHANGED <<tipsVars, loadVars, pollVars, aggVars, uiVars>>

SpecItemsInit == ItemsInit /\ TipsIdle /\ LoadIdle /\ PollIdle /\ AggIdle /\ UiIdle

SpecItemsNext == ItemListed

SpecItems == SpecItemsInit /\ [][SpecItemsNext]_vars

\* the input items that are known pairs for slot s: slot s, a display name
KnownAt(list, s) ==
    {i \in 1..Len(list) : list[i].slot = <<s>> /\ list[i].displayName # ""}

\* the last of a non-empty set of positions of the input list
LastOf(idx) == CHOOSE i \in idx : \A j \in idx : j <= i

\* C18 as stated: 7 positions, every known (slot, displayName) pair with slot
\* in 0..6 at index slot, null where no input item is, the rest dropped
C18_Original ==
    /\ Len(callOut) = 7
    /\ \A s \in 0..6 :
         /\ \A i \in KnownAt(callArgs.list, s) :
                callOut[s + 1] = <<callArgs.list[i].displayName>>
         /\ KnownAt(callArgs.list, s) = {} => callOut[s + 1] = Null

\* C18: for any input item list the items list has exactly 7 positions;
\* position s holds the display name of the last input item, in input order,
\* that has slot s and a display name, and is null when there is none; items
\* whose slot is missing or outside 0..6 fill no position
C18_LastKnownPairPerSlot ==
    /\ Len(callOut) = 7
    /\ \A s \in 0..6 :
         IF KnownAt(callArgs.list, s) = {} THEN callOut[s + 1] = Null
         ELSE callOut[s + 1]
                  = <<callArgs.list[LastOf(KnownAt(callArgs.list, s))].displayName>>

\* two known items of one slot with different names, and one item with no
\* slot, have been normalised
C18_Witness ==
    /\ Len(callArgs.list) = 3
    /\ \E s \in 0..6 : \E i, j \in KnownAt(callArgs.list, s) :
          /\ i < j
          /\ callArgs.list[i].displayName # callArgs.list[j].displayName
          /\ callOut[s + 1] = <<callArgs.list[j].displayName>>
    /\ \E i \in 1..3 : callArgs.list[i].slot = <<>> /\ callArgs.list[i].displayName # ""

(***************************************************************************)
(* The views: pollOnce and the "tip" listener of the main process send to  *)
(* the windows (part_000 118-142, 170-180), and the main view handles the  *)
(* snapshots it receives (app.ts 109-150).  The main window stays open.    *)
(***************************************************************************)
MaxSnapshots == 2
MaxInbox == 1
MaxCalls == 1

Windows == {"main", "raw", "overlay"}

\* the snapshot getAggregatedSnapshot resolved with in cycle n
DataSnapshot(n) == [data |-> n, error |-> FALSE, message |-> ""]

\* an error snapshot that drops the fields of the previous snapshot
ErrorOnly(prev, message) == [data |-> 0, error |-> TRUE, message |-> message]

\* {...(lastSnapshot ?? {}), error: true, message}; prev is 0 for null
ErrorSnapshot(prev, message) == [data |-> prev, error |-> TRUE, message |-> message]

FailureMessages == {"ECONNREFUSED", "timeout"}

TipIds == {"dragon_prep_30", "cannon_10"}

\* win.webContents.send(channel, payload) for each of the targets that exists
\* and is not destroyed
sendTo(targets, channel, payload) ==
    {[to |-> w, channel |-> channel, payload |-> payload] : w \in targets \cap windows}

\* what reaches the onSnapshot listener of the main view, once it is subscribed
toInbox(payload) ==
    IF "main" \in windows /\ view.mounted THEN Append(inbox, payload) ELSE inbox

\* a snapshot that is present, whether error-flagged or not
hasSnapshot(snapshot) == snapshot # Null

\* computed hasData: !!snapshot.value && !snapshot.value.error
hasData(snapshot) == snapshot # Null /\ ~snapshot.error

\* the overlay calls the onSnapshot handler makes for the snapshot it stores
overlayCalls(wasInGame, has) ==
    IF has /\ ~wasInGame THEN <<"showOverlay">>
    ELSE IF ~has /\ wasInGame THEN <<"hideOverlay">>
    ELSE <<>>

UiStep(kind, payload, asked) == [kind |-> kind, payload |-> payload, asked |-> asked]

\* app.whenReady with no settings file: the main window is created and
\* polling started; the view is not mounted yet
ViewsInit ==
    /\ PollInit
    /\ settingsFile = 0
    /\ windows = {"main"}
    /\ sent = {}
    /\ inbox = <<>>
    /\ view = [mounted |-> FALSE, snapshot |-> Null, activeTab |-> "home",
               previousHasData |-> FALSE, calls |-> <<>>]
    /\ uiLast = UiStep("init", Null, <<>>)

\* pollOnce, try branch: getAggregatedSnapshot() resolved
PollDelivers ==
    \E n \in 1..MaxSnapshots :
        /\ inFlight > 0
        /\ Len(inbox) < MaxInbox
        /\ inFlight' = inFlight - 1
        /\ lastSnapshot' = n
        /\ sent' = sendTo({"main", "overlay"}, "snapshot", DataSnapshot(n))
        /\ inbox' = toInbox(DataSnapshot(n))
        /\ uiLast' = UiStep("pollOk", DataSnapshot(n), <<>>)
        /\ UNCHANGED <<pollIntervalMs, pollTimer, armed, timersMade, settingsFile, saving>>
        /\ UNCHANGED <<windows, view, tipsVars, loadVars, aggVars, callVars>>

\* pollOnce, catch branch: getAggregatedSnapshot() rejected
PollFails ==
    \E message \in FailureMessages :
        /\ inFlight > 0
        /\ Len(inbox) < MaxInbox
        /\ inFlight' = inFlight - 1
        /\ sent' = sendTo({"main"}, "snapshot", ErrorSnapshot(lastSnapshot, message))
        /\ inbox' = toInbox(ErrorSnapshot(lastSnapshot, message))
        /\ uiLast' = UiStep("pollFailed", ErrorSnapshot(lastSnapshot, message), <<>>)
        /\ UNCHANGED <<pollIntervalMs, pollTimer, armed, timersMade, lastSnapshot,
                       settingsFile, saving>>
        /\ UNCHANGED <<windows, view, tipsVars, loadVars, aggVars, callVars>>

\* tipsEngine.on("tip", ...)
TipForwarded ==
    \E tip \in TipIds :
        /\ sent' = sendTo(Windows, "tip", tip)
        /\ uiLast' = UiStep("tip", tip, <<>>)
        /\ UNCHANGED <<windows, inbox, view, tipsVars, loadVars, pollVars, aggVars, callVars>>

\* openRawWindow (development builds), toggleOverlay or the global shortcut
\* with no overlay: the window is created
WindowOpens ==
    \E w \in {"raw", "overlay"} \ windows :
        /\ windows' = windows \cup {w}
        /\ sent' = {}
        /\ uiLast' = UiStep("opened", w, <<>>)
        /\ UNCHANGED <<inbox, view, tipsVars, loadVars, pollVars, aggVars, callVars>>

\* the raw window or the overlay is closed
WindowCloses ==
    \E w \in {"raw", "overlay"} \cap windows :
        /\ windows' = windows \ {w}
        /\ sent' = {}
        /\ uiLast' = UiStep("closed", w, <<>>)
        /\ UNCHANGED <<inbox, view, tipsVars, loadVars, pollVars, aggVars, callVars>>

\* onMounted up to the subscription: getSnapshot replies with lastSnapshot
\* (after a pollOnce of its own when there is none), and with a snapshot the
\* view awaits showOverlay before it subscribes to "snapshot"
ViewMounts ==
    /\ ~view.mounted
    /\ \E ok \in BOOLEAN, n \in 1..MaxSnapshots, message \in FailureMessages :
         /\ lastSnapshot # 0 => ok /\ n = lastSnapshot /\ message = "timeout"
         /\ lastSnapshot = 0 /\ ~ok => n = 1
         /\ lastSnapshot = 0 /\ ok => message = "timeout"
         /\ lastSnapshot' = (IF ok THEN n ELSE lastSnapshot)
         /\ sent' = (IF lastSnapshot # 0 THEN {}
                     ELSE IF ok THEN sendTo({"main", "overlay"}, "snapshot", DataSnapshot(n))
                     ELSE sendTo({"main"}, "snapshot", ErrorSnapshot(lastSnapshot, message)))
         /\ view' = [view EXCEPT !.mounted = TRUE,
                                 !.snapshot = IF ok THEN DataSnapshot(n) ELSE Null,
                                 !.previousHasData = ok]
         /\ windows' = (IF ok THEN windows \cup {"overlay"} ELSE windows)
         /\ uiLast' = UiStep("mounted", IF ok THEN DataSnapshot(n) ELSE Null,
                             IF ok THEN <<"showOverlay">> ELSE <<>>)
    /\ UNCHANGED <<pollIntervalMs, pollTimer, armed, timersMade, inFlight, settingsFile, saving>>
    /\ UNCHANGED <<inbox, tipsVars, loadVars, aggVars, callVars>>

\* the onSnapshot handler of the main view; its overlay calls are sent to the
\* main process and not awaited
ViewReceives ==
    /\ inbox # <<>>
    /\ Len(view.calls) < MaxCalls
    /\ \E data \in {Head(inbox)}, wasInGame \in {hasData(view.snapshot)} :
         /\ view' = [view EXCEPT !.snapshot = data,
                                 !.activeTab = IF hasData(data) /\ ~wasInGame THEN "live" ELSE @,
                                 !.previousHasData = hasData(data),
                                 !.calls = @ \o overlayCalls(wasInGame, hasData(data))]
         /\ uiLast' = UiStep("received", data, overlayCalls(wasInGame, hasData(data)))
    /\ inbox' = Tail(inbox)
    /\ UNCHANGED <<windows, sent, tipsVars, loadVars, pollVars, aggVars, callVars>>

\* ipcMain.handle("showOverlay") / ipcMain.handle("hideOverlay") for a call of
\* the view: showOverlay creates the overlay when there is none, hideOverlay
\* hides it and destroys nothing
OverlayCallHandled ==
    /\ view.calls # <<>>
    /\ windows' = (IF Head(view.calls) = "showOverlay" THEN windows \cup {"overlay"} ELSE windows)
    /\ view' = [view EXCEPT !.calls = Tail(@)]
    /\ sent' = {}
    /\ uiLast' = UiStep("handled", Head(view.calls), <<>>)
    /\ UNCHANGED <<inbox, tipsVars, loadVars, pollVars, aggVars, callVars>>

SpecViewsInit == ViewsInit /\ TipsIdle /\ LoadIdle /\ AggIdle /\ CallIdle

SpecViewsNext ==
    \/ PollTimerFires
    \/ PollDelivers
    \/ PollFails
    \/ TipForwarded
    \/ WindowOpens
    \/ WindowCloses
    \/ ViewMounts
    \/ ViewReceives
    \/ OverlayCallHandled

SpecViews == SpecViewsInit /\ [][SpecViewsNext]_vars

\* C23: every poll cycle's snapshot, successful or error-flagged, and every
\* tip is delivered to every view that is open at that moment: the main
\* window, the raw window and the overlay window
C23_FanOutToEveryView ==
    /\ uiLast.kind \in {"pollOk", "pollFailed"} =>
         \A w \in windows : [to |-> w, channel |-> "snapshot", payload |-> uiLast.payload] \in sent
    /\ uiLast.kind = "tip" =>
         \A w \in windows : [to |-> w, channel |-> "tip", payload |-> uiLast.payload] \in sent

\* what pollOnce and the tip listener do deliver: a tip to every open window,
\* the snapshot of a successful cycle to the main window and the overlay, an
\* error-flagged snapshot to the main window
C23_WhatIsDelivered ==
    /\ uiLast.kind = "tip" => {m.to : m \in sent} = windows
    /\ uiLast.kind = "pollOk" => {m.to : m \in sent} = windows \ {"raw"}
    /\ uiLast.kind = "pollFailed" => {m.to : m \in sent} = windows \cap {"main"}

\* a pollOnce ends in its catch branch in this step
CycleFails == inFlight' = inFlight - 1 /\ uiLast'.kind = "pollFailed"

\* C24: when a poll cycle fails the consumer is sent a snapshot made of the
\* previous successful snapshot's fields with error = true and the failure
\* message, the stored lastSnapshot is left unchanged, and no retry is
\* scheduled: no timer is created or re-armed and no further pollOnce starts
C24_FailureIsAnErrorSnapshot ==
    [][CycleFails =>
         /\ \E m \in sent' :
              /\ m.to = "main" /\ m.channel = "snapshot"
              /\ m.payload.error
              /\ m.payload.message \in FailureMessages
              /\ m.payload.data = lastSnapshot
         /\ view.mounted => inbox' # <<>> /\ inbox'[Len(inbox')].error
         /\ lastSnapshot' = lastSnapshot
         /\ <<pollTimer, armed, timersMade, pollIntervalMs>>' = <<pollTimer, armed, timersMade, pollIntervalMs>>
         /\ view' = view]_vars

\* a cycle failed after a successful one, and the main view stored the
\* error-flagged snapshot with the data of the successful one
C24_Witness ==
    /\ uiLast.kind = "received"
    /\ view.snapshot.error
    /\ view.snapshot.data = lastSnapshot
    /\ lastSnapshot >= 1

\* no-data: no snapshot, or an error-flagged snapshot
NoData(snapshot) == snapshot = Null \/ snapshot.error

\* the onSnapshot handler stores a received snapshot in this step
SnapshotReceived == inbox # <<>> /\ inbox' = Tail(inbox) /\ view'.snapshot = Head(inbox)

\* C28: the main view requests showOverlay exactly when a received snapshot
\* moves it from no-data to data, hideOverlay exactly when a received snapshot
\* moves it from data to no-data, and neither when the data/no-data state
\* does not change
C28_OverlayFollowsData ==
    [][SnapshotReceived =>
         /\ (uiLast'.asked = <<"showOverlay">>) <=> (NoData(view.snapshot) /\ ~NoData(view'.snapshot))
         /\ (uiLast'.asked = <<"hideOverlay">>) <=> (~NoData(view.snapshot) /\ NoData(view'.snapshot))
         /\ NoData(view.snapshot) = NoData(view'.snapshot) => uiLast'.asked = <<>>
         /\ view'.calls = view.calls \o uiLast'.asked]_vars

\* the view stored an error-flagged snapshot after a snapshot with data and
\* asked for the overlay to be hidden
C28_Witness ==
    /\ uiLast.kind = "received"
    /\ uiLast.asked = <<"hideOverlay">>
    /\ view.snapshot.error
    /\ view.calls = <<"hideOverlay">>

\* the view entered a game: it asked for the overlay and shows the live tab
C28_ShownOnEntering ==
    /\ uiLast.kind = "received"
    /\ uiLast.asked = <<"showOverlay">>
    /\ view.activeTab = "live"

(***************************************************************************)
(* The assets stage of getAggregatedSnapshot under failures of the static  *)
(* catalog (part_001 471-545, datadragon.ts 85-145)                        *)
(***************************************************************************)
FullCatalog == assetLookups(ColdCache, EpochMs, {}).catalog

RuneFields == {"keystone", "primaryTree", "secondaryTree"}

\* C25: whatever static-catalog calls fail, getAggregatedSnapshot returns a
\* snapshot with error = false when the four core fetches succeed; a failed
\* enrichment yields a null URL for its field, or no assets at all when the
\* version is unavailable, and changes no other snapshot field
C25_EnrichmentNeverFailsTheCycle ==
    aggPc = "returned" =>
        /\ result.error = FALSE
        /\ \A f \in DOMAIN result \ {"assets"} : result[f] = snapshotFor(FullCatalog)[f]
        /\ "versions" \in ddragon.failed => result.assets = Null
        /\ "versions" \notin ddragon.failed =>
             /\ result.assets # Null
             /\ result.assets.version = snapshotFor(FullCatalog).assets.version
             /\ result.assets.itemIconUrls = snapshotFor(FullCatalog).assets.itemIconUrls
             /\ result.assets.championIconUrl =
                    IF "champion" \in ddragon.failed THEN Null
                    ELSE snapshotFor(FullCatalog).assets.championIconUrl
             /\ result.assets.runeIcons =
                    IF "runes" \in ddragon.failed THEN [k \in RuneFields |-> Null]
                    ELSE snapshotFor(FullCatalog).assets.runeIcons

\* what the stage does: as C25, but when the champion index cannot be fetched
\* the champion icon URL is built from the letters of the champion's name
C25_ChampionUrlGuessed ==
    aggPc = "returned" =>
        /\ result.error = FALSE
        /\ \A f \in DOMAIN result \ {"assets"} : result[f] = snapshotFor(FullCatalog)[f]
        /\ "versions" \in ddragon.failed => result.assets = Null
        /\ "versions" \notin ddragon.failed =>
             /\ result.assets # Null
             /\ result.assets.version = snapshotFor(FullCatalog).assets.version
             /\ result.assets.itemIconUrls = snapshotFor(FullCatalog).assets.itemIconUrls
             /\ result.assets.championIconUrl =
                    IF "champion" \notin ddragon.failed
                    THEN snapshotFor(FullCatalog).assets.championIconUrl
                    ELSE IF result.player.champion = <<>> THEN Null
                    ELSE buildChampionSquareUrl(result.assets.version,
                                                lettersOnly(result.player.champion))
             /\ result.assets.runeIcons =
                    IF "runes" \in ddragon.failed THEN [k \in RuneFields |-> Null]
                    ELSE snapshotFor(FullCatalog).assets.runeIcons

(***************************************************************************)
(* The caches of datadragon.ts over the cycles of a process: callArgs is   *)
(* [cache, now, fetchedAt], fetchedAt giving for each entry the time of    *)
(* the lookup that filled it (-1 for an entry never filled); callOut is    *)
(* what the latest assets stage looked up and which remote calls it made.  *)
(***************************************************************************)
MaxHalfHours == 3

NeverFetched == [e \in StaticCalls |-> 0 - 1]

\* the cache entry behind each remote call
entryOf(cache) ==
    [e \in StaticCalls |->
        IF e = "versions" THEN <<cache.cachedVersion, cache.lastVersionFetchAt>>
        ELSE IF e = "champion" THEN cache.championNameToId
        ELSE cache.runeIdToIcon]

AssetsInit ==
    /\ callArgs = [cache |-> ColdCache, now |-> EpochMs, fetchedAt |-> NeverFetched]
    /\ callOut = <<>>
    /\ callPrev = <<>>

\* one getAggregatedSnapshot reaches its assets stage
AssetsStageRuns ==
    \E failed \in SUBSET StaticCalls :
        \E st \in {assetLookups(callArgs.cache, callArgs.now, failed)} :
            /\ callArgs' =
                 [callArgs EXCEPT
                    !.cache = st.cache,
                    !.fetchedAt = [e \in StaticCalls |->
                                     IF entryOf(st.cache)[e] # entryOf(callArgs.cache)[e]
                                     THEN callArgs.now ELSE @[e]]]
            /\ callOut' = [calls |-> st.calls, looked |-> st.looked, failed |-> failed,
                           catalog |-> st.catalog]
            /\ callPrev' = [args |-> callArgs, out |-> callOut, step |-> "stage"]
            /\ UNCHANGED <<tipsVars, loadVars, pollVars, aggVars, uiVars>>

\* Date.now() is half an hour later
HalfHourPasses ==
    /\ callArgs.now < EpochMs + MaxHalfHours * (HourMs \div 2)
    /\ callArgs' = [callArgs EXCEPT !.now = @ + HourMs \div 2]
    /\ callPrev' = [args |-> callArgs, out |-> callOut, step |-> "clock"]
    /\ UNCHANGED <<callOut, tipsVars, loadVars, pollVars, aggVars, uiVars>>

SpecAssetsInit == AssetsInit /\ TipsIdle /\ LoadIdle /\ PollIdle /\ AggIdle /\ UiIdle

SpecAssetsNext == AssetsStageRuns \/ HalfHourPasses

SpecAssets == SpecAssetsInit /\ [][SpecAssetsNext]_vars

\* the latest step was an assets stage that looked entry e up and found it
\* filled by an earlier lookup
LookedUpAt(e) ==
    /\ callPrev # <<>> /\ callPrev.step = "stage"
    /\ e \in callOut.looked
    /\ callPrev.args.fetchedAt[e] >= 0

AgeAtLookup(e) == callPrev.args.now - callPrev.args.fetchedAt[e]

\* C26: the version string, the champion index and the rune index are cached
\* with time-based invalidation: a lookup within one hour of the entry's fetch
\* makes no network call, a lookup more than one hour after it refetches
C26_CachesExpireAfterOneHour ==
    \A e \in StaticCalls :
        LookedUpAt(e) =>
            /\ AgeAtLookup(e) < HourMs => e \notin callOut.calls
            /\ AgeAtLookup(e) > HourMs => e \in callOut.calls

\* what holds: the version string expires after one hour, the two indexes are
\* never fetched again once they are filled
C26_OnlyTheVersionExpires ==
    \A e \in StaticCalls :
        LookedUpAt(e) =>
            /\ AgeAtLookup(e) < HourMs => e \notin callOut.calls
            /\ e = "versions" /\ AgeAtLookup(e) >= HourMs => e \in callOut.calls
            /\ e # "versions" => e \notin callOut.calls

\* a version fetched ninety minutes before is fetched again
C26_VersionRefetched ==
    /\ LookedUpAt("versions")
    /\ AgeAtLookup("versions") > HourMs
    /\ "versions" \in callOut.calls
    /\ "versions" \notin callOut.failed

(***************************************************************************)
(* The identity fallbacks of getAggregatedSnapshot (part_001 271-328,      *)
(* 570-571): callArgs is [activePlayerName, players], callOut the entry    *)
(* resolved as the local player with the team, the champion and the        *)
(* candidate list that follow from it.                                     *)
(***************************************************************************)
Zed == <<"Z", "e", "d">>

\* active identities: none (empty string, empty object), a name nobody in the
\* roster has (bare and composite), and a name of the roster
FallbackIdentities ==
    { StringIdentity(<<>>),
      ObjectIdentity(<<>>, <<>>, <<>>),
      StringIdentity(Zed),
      StringIdentity(Zed \o Hash \o TagE),
      ObjectIdentity(<<>>, An, <<>>),
      StringIdentity(<<" ">> \o An) }

FallbackEntries == {Ann, Bob, LegacyAnn}

\* me, player.team (me?.team || ""), player.champion (me?.championName || "")
\* and riotIdCandidates
identityFields(activePlayerName, players) ==
    LET ap == activeIdentity(activePlayerName)
        me == resolveMe(ap, players)
    IN [me |-> me,
        team |-> IF me = Null THEN "" ELSE me.team,
        champion |-> IF me = Null THEN <<>> ELSE me.championName,
        candidates |-> riotIdCandidates(ap, me)]

FallbackInit ==
    /\ \E id \in FallbackIdentities : callArgs = [activePlayerName |-> id, players |-> <<>>]
    /\ callOut = identityFields(callArgs.activePlayerName, callArgs.players)
    /\ callPrev = <<>>

\* the roster of the next cycle lists one more player
RosterGrows ==
    \E p \in FallbackEntries :
        /\ Len(callArgs.players) < MaxRoster
        /\ callArgs' = [callArgs EXCEPT !.players = Append(@, p)]
        /\ callOut' = identityFields(callArgs.activePlayerName, Append(callArgs.players, p))
        /\ callPrev' = [args |-> callArgs, out |-> callOut, step |-> "listed"]
        /\ UNCHANGED <<tipsVars, loadVars, pollVars, aggVars, uiVars>>

SpecFallbackInit == FallbackInit /\ TipsIdle /\ LoadIdle /\ PollIdle /\ AggIdle /\ UiIdle

SpecFallbackNext == RosterGrows

SpecFallback == SpecFallbackInit /\ [][SpecFallbackNext]_vars

\* the entry matches the active identity by one of the precedence rules: full
\* identity, name and tag, name, or legacy name
MatchesByAnyRule(ap, p) ==
    \/ MatchesFullId(ap, p)
    \/ MatchesNameAndTag(ap, p)
    \/ ap.apGameName # <<>>
         /\ normalizeIdString(p.riotIdGameName) = normalizeIdString(ap.apGameName)
    \/ ap.apString # <<>> /\ ~includes(ap.apString, "#")
         /\ normalizeIdString(p.summonerName) = normalizeIdString(ap.apString)

\* the forms of the active identity itself: the string, the composite id, and
\* name#tag when both are given
IdentityForms(id) ==
    {trim(f) : f \in {id.str, id.riotId,
                      IF id.riotIdGameName # <<>> /\ id.riotIdTagLine # <<>>
                      THEN id.riotIdGameName \o Hash \o id.riotIdTagLine ELSE <<>>,
                      activeIdentity(id).apFullRiotId}}

IdentityEmpty(id) == id.str = <<>> /\ id.riotId = <<>> /\ id.riotIdGameName = <<>> /\ id.riotIdTagLine = <<>>

\* C27: when no roster entry matches by any precedence rule the first roster
\* entry is selected; with an empty roster no entry is selected, team and
\* champion are empty, and the candidate list holds only forms of the active
\* identity, none when the active identity is empty
C27_IdentityFallbacks ==
    LET ap == activeIdentity(callArgs.activePlayerName)
        players == callArgs.players
    IN /\ players # <<>> /\ (\A i \in 1..Len(players) : ~MatchesByAnyRule(ap, players[i]))
            => callOut.me = players[1]
       /\ players = <<>> =>
            /\ callOut.me = Null
            /\ callOut.team = ""
            /\ callOut.champion = <<>>
            /\ \A i \in 1..Len(callOut.candidates) :
                   callOut.candidates[i] \in IdentityForms(callArgs.activePlayerName)
            /\ IdentityEmpty(callArgs.activePlayerName) => callOut.candidates = <<>>

\* nobody in a roster of two has the active name: the first entry is the local
\* player; with the empty roster before, the candidates were the active name
C27_Witness ==
    /\ Len(callArgs.players) = 2
    /\ \A i \in 1..2 : ~MatchesByAnyRule(activeIdentity(callArgs.activePlayerName), callArgs.players[i])
    /\ callOut.me = callArgs.players[1]
    /\ callOut.team = callArgs.players[1].team
    /\ ~IdentityEmpty(callArgs.activePlayerName)

\* the empty roster with an active name: nobody selected, one candidate
C27_EmptyRoster ==
    /\ callArgs.players = <<>>
    /\ callOut.me = Null
    /\ callOut.candidates = <<Zed>>

(***************************************************************************)
(* setPollingInterval calls and what they leave behind (part_000 232-239,  *)
(* settings.ts 16-35): the poll actions, with callArgs the ms of the       *)
(* latest call (<<>> before the first) and callOut telling whether a call  *)
(* began while another was awaiting saveSettings.                          *)
(***************************************************************************)
IntervalInit ==
    /\ PollInit
    /\ callArgs = <<>>
    /\ callOut = FALSE
    /\ callPrev = <<>>

IntervalRequested ==
    \E ms \in Requests :
        /\ setPollingIntervalBegins(ms)
        /\ callArgs' = <<ms>>
        /\ callOut' = (callOut \/ saving # <<>>)
        /\ UNCHANGED callPrev

IntervalSaved == setPollingIntervalEnds /\ UNCHANGED callVars

SpecIntervalInit == IntervalInit /\ TipsIdle /\ LoadIdle /\ AggIdle /\ UiIdle

SpecIntervalNext ==
    \/ PollTimerFires
    \/ PollResolves
    \/ PollRejects
    \/ IntervalRequested
    \/ IntervalSaved

SpecInterval == SpecIntervalInit /\ [][SpecIntervalNext]_vars

\* what the request asks for, within [250, 10000], 1000 for no number or 0
ClampedRequest(ms) ==
    IF ms = 0 THEN 1000 ELSE IF ms < 250 THEN 250 ELSE IF ms > 10000 THEN 10000 ELSE ms

\* app.whenReady: pollIntervalMs = settings.pollIntervalMs ?? 1000
RestoredAtLaunch == IF settingsFile = 0 THEN 1000 ELSE settingsFile

\* every setPollingInterval call made so far has completed
CallsCompleted == callArgs # <<>> /\ saving = <<>>

\* C29: after any sequence of setPollingInterval calls has completed, the one
\* active poll timer runs at the clamped value of the last call, that value is
\* the one in the settings file, and it is the interval restored at launch
C29_LastCallWins ==
    CallsCompleted =>
        /\ armed = {[id |-> pollTimer, ms |-> ClampedRequest(callArgs[1])]}
        /\ settingsFile = ClampedRequest(callArgs[1])
        /\ RestoredAtLaunch = ClampedRequest(callArgs[1])

\* the timer part, which holds whatever the order of completion
C29_TimerAtLastCall ==
    CallsCompleted => armed = {[id |-> pollTimer, ms |-> ClampedRequest(callArgs[1])]}

\* the whole of C29 for calls that never overlap
C29_HoldsWithoutOverlap ==
    CallsCompleted /\ ~callOut =>
        /\ armed = {[id |-> pollTimer, ms |-> ClampedRequest(callArgs[1])]}
        /\ settingsFile = ClampedRequest(callArgs[1])
        /\ RestoredAtLaunch = ClampedRequest(callArgs[1])

(***************************************************************************)
(* Throttle suppression and the engine's state (preload.ts 254-267,        *)
(* 308-320), for rule documents whose notify fields have their declared    *)
(* types                                                                   *)
(***************************************************************************)
StampOf(map, k) == IF k \in DOMAIN map THEN map[k] ELSE 0

\* the keys whose last-fired timestamp this step changes
Restamped == {k \in DOMAIN lastFiredAtMs' : StampOf(lastFiredAtMs', k) # StampOf(lastFiredAtMs, k)}

----------------------------------------------------------------------------
(* The README example: rule dragon_prep_30 and a dragon due at 1200         *)

\* the seconds around 1170, where the window of lead 30 opens, up to 1186
ExampleTimes == {1140, 1169, 1170, 1171, 1172, 1173, 1185, 1186}

\* a dragon killed at 900: its next spawn is at 900 + DRAGON_RESPAWN = 1200
ExampleLogs == {<<DragonKill(900)>>}

ExampleKey == <<"dragon_prep_30", "dragon", 30, 1200>>

\* a tick of a game whose clock does not go back
ExampleTick ==
    /\ TickOver(ExampleTimes, ExampleLogs, Modes, config)
    /\ lastNow' >= lastNow
    /\ UNCHANGED pending

SpecExampleInit ==
    TipsInitFrom({DirPlain}) /\ LoadIdle /\ PollIdle /\ AggIdle /\ CallIdle /\ UiIdle

SpecExampleNext == ExampleTick \/ TickFailed

SpecExample == SpecExampleInit /\ [][SpecExampleNext]_vars

\* C31: with rule dragon_prep_30 and a dragon due at 1200, the first tick
\* that sees game time 1170 emits exactly one tip, with id dragon_prep_30
\* and title "Dragon in 30s"; no later tick up to game time 1185 emits
\* anything, and the occurrence is emitted once at most
C31_ExampleEmitsOnce ==
    /\ (last.kind = "tick" /\ last.now = 1170 /\ last.prevNow < 1170) =>
          /\ Len(tips) = 1
          /\ tips[1].id = "dragon_prep_30"
          /\ tips[1].title = "Dragon in 30s"
          /\ tips[1].key = ExampleKey
    /\ (last.kind = "tick" /\ last.now \in 1170..1185 /\ last.prevNow >= 1170) =>
          tips = <<>>
    /\ MapGetOr0(hist.count, ExampleKey) <= 1

\* a tick at 1185 after the tip of the tick at 1170
C31_Witness ==
    /\ last.kind = "tick" /\ last.now = 1185 /\ last.prevNow = 1170
    /\ ExampleKey \in fired
    /\ MapGetOr0(hist.count, ExampleKey) = 1
    /\ tips = <<>>

\* the tick at 1170 emits the tip
C31_TipAt1170 == last.kind = "tick" /\ last.now = 1170 /\ Len(tips) = 1

----------------------------------------------------------------------------
(* getNextCannonWavesBefore20 on its own, for every second of a game        *)

\* game times up to past the end of the laning phase
MaxNow == 1300

WavesInit == callArgs = <<0>> /\ callOut = getNextCannonWavesBefore20(0) /\ callPrev = <<>>

\* the next call, some seconds of game time later
WavesCalled ==
    \E nowSec \in (callArgs[1] + 1)..Min(MaxNow, callArgs[1] + 3) :
        /\ callArgs' = <<nowSec>>
        /\ callOut' = getNextCannonWavesBefore20(nowSec)
        /\ UNCHANGED <<callPrev, tipsVars, loadVars, pollVars, aggVars, uiVars>>

SpecWavesInit == WavesInit /\ TipsIdle /\ LoadIdle /\ PollIdle /\ AggIdle /\ UiIdle

SpecWavesNext == WavesCalled

SpecWaves == SpecWavesInit /\ [][SpecWavesNext]_vars

\* the cannon waves of the laning phase that spawn after nowSec
CannonWavesAfter(nowSec) == {i \in AllCannonWaves : WaveTime(i) > nowSec}

\* C32: getNextCannonWavesBefore20(now) returns at most 5 waves in strictly
\* increasing order, each a cannon wave (index a multiple of 3) with
\* spawnTime = 90 + 30 (waveIndex - 1), nowSec < spawnTime <= 1200, and they
\* are the next cannon waves after now, none skipped
C32_NextCannonWaves ==
    LET nowSec == callArgs[1]
        waves == callOut
        indices == {waves[i].waveIndex : i \in 1..Len(waves)}
    IN /\ Len(waves) <= 5
       /\ \A i \in 1..Len(waves) :
            /\ waves[i].waveIndex % 3 = 0
            /\ waves[i].spawnTime = 90 + 30 * (waves[i].waveIndex - 1)
            /\ waves[i].spawnTime > nowSec
            /\ waves[i].spawnTime <= 1200
       /\ \A i \in 1..(Len(waves) - 1) : waves[i].spawnTime < waves[i + 1].spawnTime
       /\ indices \subseteq CannonWavesAfter(nowSec)
       /\ \A c \in CannonWavesAfter(nowSec) \ indices :
            Len(waves) = 5 /\ \A i \in indices : i < c
       /\ Len(waves) = Min(5, Cardinality(CannonWavesAfter(nowSec)))

\* a call at the second a cannon wave spawns (wave 3, at 150): five waves
\* come back, the first being wave 6
C32_Witness ==
    /\ callArgs = <<150>>
    /\ Len(callOut) = 5
    /\ callOut[1] = [waveIndex |-> 6, spawnTime |-> 240]

\* a call near the end of the laning phase returns fewer than five waves,
\* and a call after the last cannon wave none
C32_FewLeft == callArgs = <<1139>> /\ Len(callOut) = 1

C32_NoneLeft == callArgs = <<1140>> /\ callOut = <<>>

----------------------------------------------------------------------------
(* The herald's timer and the end of its window *)

\* C33: in every snapshot herald.nextSpawnTime <= herald.despawnsAt = 1200,
\* whatever the game time and the event log
C33_HeraldWithinItsWindow ==
    /\ callOut.herald.despawnsAt = 1200
    /\ callOut.herald.nextSpawnTime <= callOut.herald.despawnsAt

\* the last HeraldKill of the log is less than 360 seconds before 1200: the
\* timer stands at 1200
C33_Witness ==
    /\ lastKill(callArgs.events, "HeraldKill") # <<>>
    /\ lastKill(callArgs.events, "HeraldKill")[1].EventTime + HERALD_RESPAWN > 1200
    /\ callOut.herald.nextSpawnTime = 1200

\* a HeraldKill early enough leaves the timer below 1200
C33_RespawnBefore1200 ==
    /\ lastKill(callArgs.events, "HeraldKill") # <<>>
    /\ callOut.herald.nextSpawnTime = 480 + HERALD_RESPAWN

----------------------------------------------------------------------------
(* The identity candidate lists of getAggregatedSnapshot and of getRawDump  *)

\* a roster field that is <<>> is absent, and === of undefined with a string
\* is false
sameField(field, str) == field # <<>> /\ field = str

\* players.find(...)
find(players, Test(_)) ==
    LET hits == SelectSeq(players, Test)
    IN IF hits = <<>> THEN <<>> ELSE <<hits[1]>>

\* getRawDump: const me, a chain of find calls that compare without
\* normalizing, then players[0], then null
rawMe(ap, players) ==
    LET byFull == find(players, LAMBDA p : buildFullRiotId(p) = ap.apFullRiotId)
        byNameTag == find(players, LAMBDA p : /\ sameField(p.riotIdGameName, ap.apGameName)
                                               /\ sameField(p.riotIdTagLine, ap.apTagLine))
        byName == find(players, LAMBDA p : sameField(p.riotIdGameName, ap.apGameName))
        byLegacy == find(players, LAMBDA p : sameField(p.summonerName, ap.apString))
    IN IF byFull # <<>> THEN byFull[1]
       ELSE IF byNameTag # <<>> THEN byNameTag[1]
       ELSE IF byName # <<>> THEN byName[1]
       ELSE IF byLegacy # <<>> THEN byLegacy[1]
       ELSE IF players # <<>> THEN players[1]
       ELSE <<>>

\* getRawDump: riotIdCandidates, with myRiotId = me ? buildFullRiotId(me) : null
\* in front
rawCandidates(ap, me) ==
    LET forms ==
            << buildFullRiotId(me),
               ap.apFullRiotId,
               IF me # <<>> /\ me.riotIdGameName # <<>> /\ me.riotIdTagLine # <<>>
               THEN me.riotIdGameName \o Hash \o me.riotIdTagLine ELSE <<>>,
               IF me # <<>> THEN me.riotIdGameName ELSE <<>>,
               IF me # <<>> THEN me.summonerName ELSE <<>>,
               ap.apString >>
        truthy == SelectSeq(forms, LAMBDA f : f # <<>>)
    IN uniq([i \in 1..Len(truthy) |-> trim(truthy[i])], <<>>)

\* both lists for one active identity and roster
candidateLists(activePlayerName, players) ==
    LET ap == activeIdentity(activePlayerName)
    IN [snapshot |-> riotIdCandidates(ap, resolveMe(ap, players)),
        dump |-> rawCandidates(ap, rawMe(ap, players)),
        me |-> resolveMe(ap, players),
        rawMe |-> rawMe(ap, players)]

CandidatesInit ==
    /\ \E id \in Identities : callArgs = [activePlayerName |-> id, players |-> <<>>]
    /\ callOut = candidateLists(callArgs.activePlayerName, callArgs.players)
    /\ callPrev = <<>>

\* the roster of the next cycle lists one more player
CandidatesRosterGrows ==
    \E p \in RosterEntries :
        /\ Len(callArgs.players) < MaxRoster
        /\ callArgs' = [callArgs EXCEPT !.players = Append(@, p)]
        /\ callOut' = candidateLists(callArgs.activePlayerName, Append(callArgs.players, p))
        /\ UNCHANGED <<callPrev, tipsVars, loadVars, pollVars, aggVars, uiVars>>

SpecCandidatesInit == CandidatesInit /\ TipsIdle /\ LoadIdle /\ PollIdle /\ AggIdle /\ UiIdle

SpecCandidatesNext == CandidatesRosterGrows

SpecCandidates == SpecCandidatesInit /\ [][SpecCandidatesNext]_vars

\* the first occurrences of the non-empty strings of a list, in order
RECURSIVE FirstOccurrences(_)
FirstOccurrences(list) ==
    IF list = <<>> THEN <<>>
    ELSE LET before == FirstOccurrences(SubSeq(list, 1, Len(list) - 1))
             x == list[Len(list)]
         IN IF x = <<>> \/ \E i \in 1..Len(before) : before[i] = x
            THEN before ELSE Append(before, x)

\* the six forms in the order stated: the active identity's full composite,
\* the composite built from the entry, the entry's name#tag, its bare name,
\* its legacy name, the raw active-identity string
StatedForms(activePlayerName, me) ==
    LET ap == activeIdentity(activePlayerName)
    IN << ap.apFullRiotId,
          buildFullRiotId(me),
          IF me # <<>> /\ me.riotIdGameName # <<>> /\ me.riotIdTagLine # <<>>
          THEN me.riotIdGameName \o Hash \o me.riotIdTagLine ELSE <<>>,
          IF me # <<>> THEN me.riotIdGameName ELSE <<>>,
          IF me # <<>> THEN me.summonerName ELSE <<>>,
          ap.apString >>

\* C34: the candidate list is the six forms in the stated order, empty forms
\* omitted, each string once at its first occurrence, in getAggregatedSnapshot
\* and in getRawDump alike
C34_CandidateOrder ==
    /\ callOut.snapshot = FirstOccurrences(StatedForms(callArgs.activePlayerName, callOut.me))
    /\ callOut.dump = FirstOccurrences(StatedForms(callArgs.activePlayerName, callOut.rawMe))

\* the part that holds: the list of getAggregatedSnapshot
C34_SnapshotOrder ==
    callOut.snapshot = FirstOccurrences(StatedForms(callArgs.activePlayerName, callOut.me))

\* getRawDump puts the composite built from the entry before the active
\* identity's; the rest of the order is the stated one
C34_DumpOrder ==
    LET stated == StatedForms(callArgs.activePlayerName, callOut.rawMe)
    IN callOut.dump = FirstOccurrences(<<stated[2], stated[1]>> \o SubSeq(stated, 3, 6))

\* an active identity An#E resolved to the entry An#N by its name: the two
\* lists start with different composites
C34_ListsDiffer ==
    /\ callOut.me = callOut.rawMe
    /\ Len(callOut.snapshot) >= 2
    /\ callOut.dump[1] = callOut.snapshot[2]
    /\ callOut.dump[2] = callOut.snapshot[1]

----------------------------------------------------------------------------
(* Ticks in flight at once: setInterval calls tick() every second without   *)
(* waiting for the tick before, and each tick awaits its own snapshot       *)

\* ticks that may await their snapshot at the same time
MaxOverlap == 2

\* callArgs holds the game clock of the source, which never goes back
OverlapInit == TipsInitFrom({DirPlain}) /\ callArgs = <<0>> /\ callOut = <<>> /\ callPrev = <<>>

\* the interval fires: tick() calls getSnapshot(), whose first request reads
\* the game time; the tick then awaits the rest of the snapshot
OverlapTimerFires ==
    \E t \in ExampleTimes :
        /\ Len(pending) < MaxOverlap
        /\ t >= callArgs[1]
        /\ callArgs' = <<t>>
        /\ pending' = Append(pending, [started |-> config, time |-> t])
        /\ UNCHANGED <<config, lastNow, fired, lastFiredAtMs, wallMs, tips, last, hist>>
        /\ UNCHANGED <<callOut, callPrev, loadVars, pollVars, aggVars, uiVars>>

\* getSnapshot() of one of the awaiting ticks resolves, in any order, with
\* the game time it read
OverlapTickResumes ==
    \E i \in 1..Len(pending) :
        /\ TickOver({pending[i].time}, ExampleLogs, Modes, pending[i].started)
        /\ pending' = RemoveAt(pending, i)

\* getSnapshot() of one of the awaiting ticks rejects
OverlapTickRejects ==
    \E i \in 1..Len(pending) :
        /\ TickFailedBody
        /\ pending' = RemoveAt(pending, i)

SpecOverlapInit == OverlapInit /\ LoadIdle /\ PollIdle /\ AggIdle /\ UiIdle

SpecOverlapNext == OverlapTimerFires \/ OverlapTickResumes \/ OverlapTickRejects

SpecOverlap == SpecOverlapInit /\ [][SpecOverlapNext]_vars

\* C35: the game clock of the source never decreases; then no tick clears
\* the fired set and no tick emits a key that was emitted before, also when
\* ticks overlap and their snapshots arrive out of order
C35_NoResetNoRepeat ==
    last.kind = "tick" => ~last.regressed /\ last.gaps = {}

\* the part that holds: a tick never emits a key that is in the fired set
\* it finds after its own reset
C35_FiredKeysStaySilent ==
    [][wallMs' # wallMs /\ last'.kind = "tick" /\ ~last'.regressed =>
          \A i \in 1..Len(tips') : tips'[i].key \notin fired]_vars

\* a tick that read 1171 resolved and emitted; the tick that read 1170
\* before it resolves after it, clears the fired set and emits the key again
C35_EmittedTwice ==
    /\ last.kind = "tick" /\ last.now = 1170 /\ last.prevNow = 1171
    /\ last.regressed
    /\ \E g \in last.gaps : g.key = ExampleKey

----------------------------------------------------------------------------
(* The slack of the lead-time window against the tick period *)

\* the rules of a configuration, and the ids of those without a throttle
RulesOf(modules) == UNION {Range(modules[i].rules) : i \in 1..Len(modules)}

Unthrottled(modules) ==
    {r.id : r \in {x \in RulesOf(modules) : throttleMsOf(x) = 0}}
        \ {r.id : r \in {x \in RulesOf(modules) : throttleMsOf(x) > 0}}

\* the time of the occurrence a key stands for
OccurrenceTime(k) == IF k[2] = "cannon_wave" THEN WaveTime(k[4]) ELSE k[4]

\* the keys (rule, L, T) of the latest tick that the statement speaks of: the
\* rule enabled, applicable and unthrottled, L >= 2 (at most 360 for a
\* cannon wave), the tick before at t1 < t2 <= t1 + 2 with T - t1 > L, and
\* T - t2 <= L
WindowEntered ==
    {k \in last.inWindow :
        /\ k[1] \in Unthrottled(config)
        /\ k[3] >= 2
        /\ k[2] = "cannon_wave" => k[3] <= 360
        /\ last.prevNow < last.now
        /\ last.now - last.prevNow <= 2
        /\ OccurrenceTime(k) - last.prevNow > k[3]
        /\ OccurrenceTime(k) - last.now <= k[3]}

\* C36: when two consecutive completed ticks observe t1 < t2 <= t1 + 2 with
\* T - t1 > L and T - t2 <= L, the tick at t2 emits the tip of (rule, L, T)
C36_WindowNeverJumped ==
    last.kind = "tick" => WindowEntered \subseteq TipKeys(tips)

\* the same for the ticks that came to evaluate the rule
C36_EmittedWhenEvaluated ==
    last.kind = "tick" =>
        {k \in WindowEntered : k[1] \in last.evaluated} \subseteq TipKeys(tips)

\* a tick two seconds after the one before it, which was outside the window:
\* it is inside by exactly the slack, and emits
C36_Witness ==
    /\ last.kind = "tick" /\ last.now = last.prevNow + 2
    /\ \E k \in WindowEntered :
          /\ OccurrenceTime(k) - last.now = k[3] - 1
          /\ k \in TipKeys(tips)

\* a tick cut short by a rule without trigger leaves the window unanswered
C36_CutShort ==
    /\ last.kind = "tick" /\ last.thrown
    /\ WindowEntered \ TipKeys(tips) # {}

----------------------------------------------------------------------------
(* A tick whose snapshot does not arrive *)

\* C37: a tick whose getSnapshot() rejects emits no tip and leaves the fired
\* set, lastNow and the throttle timestamps as they were; lastNow is the game
\* time of the last tick that got a snapshot, however many ticks failed since
C37_FailedTickChangesNothing ==
    [][/\ (last'.kind = "tickFailed" /\ wallMs' # wallMs) =>
             /\ tips' = <<>>
             /\ fired' = fired
             /\ lastNow' = lastNow
             /\ lastFiredAtMs' = lastFiredAtMs
       /\ last'.kind = "tick" => lastNow' = last'.now
       /\ last'.kind # "tick" => lastNow' = lastNow]_vars

\* a failed tick after ticks that observed 1130, fired a key and stamped a
\* throttle: everything is still there
C37_Witness ==
    /\ last.kind = "tickFailed"
    /\ lastNow = 1130
    /\ fired # {}
    /\ DOMAIN lastFiredAtMs # {}
    /\ tips = <<>>

----------------------------------------------------------------------------
(* A reload between two ticks *)

\* C38: a reload changes the rule set only: it emits nothing and leaves the
\* fired set, the throttle timestamps and lastNow as they were; and a tick
\* that observes no clock regression emits no key that is in the fired set,
\* whatever was reloaded since the key was fired
C38_ReloadKeepsWhatFired ==
    [][/\ last'.kind = "reload" =>
             /\ tips' = <<>>
             /\ fired' = fired
             /\ lastFiredAtMs' = lastFiredAtMs
             /\ lastNow' = lastNow
       /\ (last'.kind = "tick" /\ wallMs' # wallMs /\ last'.now >= lastNow) =>
             /\ TipKeys(tips') \cap fired = {}
             /\ fired \subseteq fired']_vars

\* the key of dragon_prep_30, lead 30, was fired and stamped while the rule
\* had a throttle; the directory was replaced by one whose rule of the same
\* id has none, and the next tick, still inside the window, stays silent
C38_Witness ==
    /\ last.kind = "tick" /\ ~last.regressed
    /\ config = loadYamlFiles(DirPlain)
    /\ \E k \in last.inView \cap fired :
          /\ k[1] = "dragon_prep_30"
          /\ k \in DOMAIN lastFiredAtMs
          /\ k \notin TipKeys(tips)
          /\ k \notin last.suppressed

\* the state right after a reload that found keys fired
C38_JustReloaded == last.kind = "reload" /\ fired # {} /\ lastNow > 0

----------------------------------------------------------------------------
(* The two interval timers: the engine's tick timer and the poll timer      *)

\* the engine's timer field and the interval timers of the event loop that
\* were created for it and not cleared; timer 0 is null
NewEngine == [timer |-> 0, armed |-> {}, made |-> 0]

\* TipsEngine.stop(): if (this.timer) { clearInterval(this.timer); this.timer = null }
stop(engine) ==
    IF engine.timer = 0 THEN engine
    ELSE [engine EXCEPT !.armed = @ \ {engine.timer}, !.timer = 0]

\* a start that does not stop the running timer first
startWithoutStop(engine) ==
    [engine EXCEPT !.made = @ + 1, !.timer = engine.made + 1,
                   !.armed = @ \cup {engine.made + 1}]

\* TipsEngine.start(): this.stop(); this.timer = setInterval(...)
start(engine) ==
    [stop(engine) EXCEPT !.made = @ + 1, !.timer = engine.made + 1,
                         !.armed = @ \cup {engine.made + 1}]

\* app.whenReady: startPolling(), new TipsEngine(...), tipsEngine.start();
\* callArgs is the engine, callOut the tick callbacks run so far and the
\* timer of the latest, callPrev the poll timer that fired last
LifecycleInit ==
    /\ PollInit
    /\ callArgs = start(NewEngine)
    /\ callOut = [ticks |-> 0, by |-> 0]
    /\ callPrev = <<>>

EngineStarts ==
    /\ callArgs.made < MaxTimers
    /\ callArgs' = start(callArgs)
    /\ UNCHANGED <<callOut, callPrev, tipsVars, loadVars, pollVars, aggVars, uiVars>>

EngineStops ==
    /\ callArgs' = stop(callArgs)
    /\ UNCHANGED <<callOut, callPrev, tipsVars, loadVars, pollVars, aggVars, uiVars>>

\* an armed interval timer of the engine fires: tick() is called
TickTimerFires ==
    \E t \in callArgs.armed :
        /\ callOut.ticks < MaxTimers
        /\ callOut' = [ticks |-> callOut.ticks + 1, by |-> t]
        /\ UNCHANGED <<callArgs, callPrev, tipsVars, loadVars, pollVars, aggVars, uiVars>>

\* an armed poll timer fires: pollOnce() starts
PollTimerFiresNamed ==
    \E t \in armed :
        /\ inFlight < MaxInFlight
        /\ inFlight' = inFlight + 1
        /\ callPrev' = <<t.id>>
        /\ UNCHANGED <<pollIntervalMs, pollTimer, armed, timersMade, lastSnapshot,
                       settingsFile, saving, callArgs, callOut,
                       tipsVars, loadVars, aggVars, uiVars>>

\* app.on("window-all-closed"): tipsEngine.stop(), stopPolling(); the
\* process stays (darwin)
WindowAllClosed ==
    /\ callArgs' = stop(callArgs)
    /\ armed' = stopPolling(armed, pollTimer)
    /\ pollTimer' = 0
    /\ UNCHANGED <<pollIntervalMs, timersMade, inFlight, lastSnapshot, settingsFile,
                   saving, callOut, callPrev, tipsVars, loadVars, aggVars, uiVars>>

\* ipcMain setPollingInterval, up to its await, with one request value
IntervalSetLow == setPollingIntervalBegins(100) /\ UNCHANGED callVars

SpecLifecycleInit == LifecycleInit /\ TipsIdle /\ LoadIdle /\ AggIdle /\ UiIdle

SpecLifecycleNext ==
    \/ EngineStarts
    \/ EngineStops
    \/ TickTimerFires
    \/ PollTimerFiresNamed
    \/ PollResolves
    \/ IntervalSetLow
    \/ SetPollingIntervalResumes
    \/ WindowAllClosed

SpecLifecycle == SpecLifecycleInit /\ [][SpecLifecycleNext]_vars

\* at most one timer of each kind is armed, and it is the one the field holds
OneTimerEach ==
    /\ Cardinality(callArgs.armed) <= 1
    /\ callArgs.armed \subseteq {callArgs.timer}
    /\ callArgs.timer = 0 => callArgs.armed = {}
    /\ Cardinality(armed) <= 1
    /\ \A t \in armed : t.id = pollTimer

\* C39: whatever the sequence of start/stop and of startPolling/stopPolling/
\* setPollingInterval calls, at most one tick timer and at most one poll timer
\* are armed, none of the engine's after stop, and the timer that fires is
\* the current one, never one that a restart replaced
C39_OneTimerEach ==
    /\ []OneTimerEach
    /\ [][/\ callOut'.ticks # callOut.ticks => callOut'.by = callArgs.timer
          /\ callPrev' # callPrev => callPrev' = <<pollTimer>>]_vars

\* both timers were restarted, and the timers that fired last are the third
\* tick timer and the second poll timer
C39_Witness ==
    /\ callArgs.made = 3 /\ callArgs.armed = {3} /\ callOut.by = 3
    /\ timersMade >= 2 /\ callPrev = <<pollTimer>> /\ pollTimer >= 2
    /\ Cardinality(armed) = 1

\* after the last window closed no timer is armed
C39_NoneAfterStop ==
    /\ callArgs.made > 0 /\ callArgs.timer = 0 /\ callArgs.armed = {}
    /\ pollTimer = 0 /\ armed = {}

----------------------------------------------------------------------------
(* ensureRunesIndex and ensureChampionIndex as calls that await: the cache  *)
(* is tested when the call begins and written when its fetch has settled    *)

\* calls that may await their fetch at the same time
MaxFlights == 2

IndexCalls == {"champion", "runes"}

indexEntry(cache, fn) ==
    IF fn = "runes" THEN cache.runeIdToIcon ELSE cache.championNameToId

\* the rest of a call that found its index missing, run on the cache of the
\* moment its fetch settles: a rejected ensureChampionIndex assigns nothing
settled(cache, fn, now, failed) ==
    IF fn = "runes"
    THEN ensureRunesIndex([cache EXCEPT !.runeIdToIcon = <<>>], now, failed)
    ELSE LET r == ensureChampionIndex([cache EXCEPT !.championNameToId = <<>>], now, failed)
         IN IF r.value = <<>>
            THEN [r EXCEPT !.cache.championNameToId = cache.championNameToId]
            ELSE r

\* callArgs: the module's cache and the calls in flight; callOut: the call
\* that returned last; callPrev: what the first ensureRunesIndex to complete
\* returned, and how many calls have returned after it
IndexesInit ==
    /\ callArgs = [cache |-> ColdCache, flights |-> <<>>]
    /\ callOut = <<>>
    /\ callPrev = [first |-> <<>>, laterCalls |-> 0]

\* a call begins: with the index cached it returns at once, otherwise it
\* goes to the network
IndexCalled ==
    \E fn \in IndexCalls :
        IF indexEntry(callArgs.cache, fn) # <<>>
        THEN /\ callOut' = [fn |-> fn, value |-> indexEntry(callArgs.cache, fn),
                            calls |-> {}, begunAfterFirst |-> callPrev.first # <<>>]
             /\ callPrev' = [callPrev EXCEPT !.laterCalls =
                                IF callPrev.first # <<>> /\ fn = "runes"
                                THEN Min(MaxFlights, @ + 1) ELSE @]
             /\ UNCHANGED <<callArgs, tipsVars, loadVars, pollVars, aggVars, uiVars>>
        ELSE /\ Len(callArgs.flights) < MaxFlights
             /\ callArgs' = [callArgs EXCEPT !.flights =
                                Append(@, [fn |-> fn, begunAfterFirst |-> callPrev.first # <<>>])]
             /\ UNCHANGED <<callOut, callPrev, tipsVars, loadVars, pollVars, aggVars, uiVars>>

\* the fetches of a call in flight settle, some of them failed
IndexSettled ==
    \E i \in 1..Len(callArgs.flights), failed \in SUBSET StaticCalls :
        \E r \in {settled(callArgs.cache, callArgs.flights[i].fn, EpochMs, failed)} :
            /\ callArgs' = [cache |-> r.cache, flights |-> RemoveAt(callArgs.flights, i)]
            /\ callOut' = [fn |-> callArgs.flights[i].fn, value |-> r.value, calls |-> r.calls,
                           begunAfterFirst |-> callArgs.flights[i].begunAfterFirst]
            /\ callPrev' = IF callArgs.flights[i].fn = "runes" /\ callPrev.first = <<>>
                           THEN [callPrev EXCEPT !.first = r.value] ELSE callPrev
            /\ UNCHANGED <<tipsVars, loadVars, pollVars, aggVars, uiVars>>

SpecIndexesInit == IndexesInit /\ TipsIdle /\ LoadIdle /\ PollIdle /\ AggIdle /\ UiIdle

SpecIndexesNext == IndexCalled \/ IndexSettled

SpecIndexes == SpecIndexesInit /\ [][SpecIndexesNext]_vars

\* C40: once an ensureRunesIndex has completed, with or without success,
\* the cache holds the map it returned for good and every later call returns
\* that map without a request: after a failed first build the index stays
\* empty; a failed ensureChampionIndex caches nothing, so that the next call
\* fetches again
C40_FirstRuneIndexStays ==
    /\ callPrev.first # <<>> => callArgs.cache.runeIdToIcon = callPrev.first
    /\ (callOut # <<>> /\ callOut.fn = "runes" /\ callOut.begunAfterFirst) =>
          callOut.value = callPrev.first /\ callOut.calls = {}
    /\ (callOut # <<>> /\ callOut.fn = "champion" /\ callOut.value = <<>>) =>
          callOut.calls # {}

\* the part that holds: a call begun after the first completion returns what
\* the cache holds without a request, the cached rune index is never removed,
\* and a champion call that failed has assigned nothing
C40_LaterCallsReadTheCache ==
    [][/\ (callOut' # callOut /\ callOut'.fn = "runes" /\ callOut'.begunAfterFirst) =>
             /\ callOut'.calls = {}
             /\ <<callOut'.value>> = <<callArgs.cache.runeIdToIcon>>
       /\ callArgs.cache.runeIdToIcon # <<>> => callArgs'.cache.runeIdToIcon # <<>>
       /\ (callOut' # callOut /\ callOut'.fn = "champion" /\ callOut'.value = <<>>) =>
             callArgs'.cache.championNameToId = callArgs.cache.championNameToId]_vars

\* two calls found the index missing; the first to settle failed and left an
\* empty map, the second succeeded and replaced it
C40_EmptyIndexReplaced ==
    /\ callPrev.first = <<EmptyMap>>
    /\ callArgs.cache.runeIdToIcon = <<RuneIdToIcon>>

\* a call after a failed build that nothing overlapped: the empty map again,
\* no request
C40_StaysEmptyWithoutOverlap ==
    /\ callPrev.first = <<EmptyMap>> /\ callPrev.laterCalls > 0
    /\ callOut.fn = "runes" /\ callOut.begunAfterFirst
    /\ callOut.value = <<EmptyMap>> /\ callOut.calls = {}

============================================================================
